---- MODULE Spec2Model ----
(***************************************************************************)
(* Multi-agent dispatch and plan-execution state machine of the            *)
(* observability agent: Router, Planner, Metrics/SQL agent with its        *)
(* validate/repair loop, Chart agent, Diagnostics-Summary agent,           *)
(* Clarifier and Refusal agents, and the graph that drives them.           *)
(*                                                                         *)
(* Two generations of the Router live in the repository:                   *)
(*   variant "backend"   - backend/observability_agent (router emits the   *)
(*                         refusal itself, no clarification handling);     *)
(*   variant "clarifier" - src/observability_agent/agents/router.py        *)
(*                         (clarification handling, refusal/clarifier      *)
(*                         agents as graph nodes).                         *)
(* Texts are real strings; keyword tests are substring tests.              *)
(***************************************************************************)
EXTENDS Integers, Sequences, FiniteSets, TLC

(***************************************************************************)
(* Python values                                                           *)
(***************************************************************************)
\* Python's None for optional strings and optional ints.
None == "<None>"
NoneInt == -1

\* dict.get(key, default) on a dict modelled as a function over its keys.
Get(d, k, default) == IF k \in DOMAIN d THEN d[k] ELSE default

\* d[k] = v and d.pop(k, None)
DictSet(d, k, v) == [x \in DOMAIN d \cup {k} |-> IF x = k THEN v ELSE d[x]]
DictPop(d, k) == [x \in DOMAIN d \ {k} |-> d[x]]

\* A graph channel that holds no value (state.get(key) returns its default).
Absent == [absent |-> TRUE]

\* Outcome of a capability call that raises (where the results are records).
Raised == [raise |-> TRUE]

max(a, b) == IF a >= b THEN a ELSE b

(***************************************************************************)
(* str operations: lower(), "kw in text", strip(), int(digits)             *)
(***************************************************************************)
UpperToLower ==
  [A |-> "a", B |-> "b", C |-> "c", D |-> "d", E |-> "e", F |-> "f", G |-> "g",
   H |-> "h", I |-> "i", J |-> "j", K |-> "k", L |-> "l", M |-> "m", N |-> "n",
   O |-> "o", P |-> "p", Q |-> "q", R |-> "r", S |-> "s", T |-> "t", U |-> "u",
   V |-> "v", W |-> "w", X |-> "x", Y |-> "y", Z |-> "z"]

CharAt(s, i) == SubSeq(s, i, i)

\* Least and greatest element of a non-empty set of numbers.
Min(S) == CHOOSE x \in S : \A y \in S : x <= y
Max(S) == CHOOSE x \in S : \A y \in S : x >= y

LowerChar(c) == IF c \in DOMAIN UpperToLower THEN UpperToLower[c] ELSE c

\* str.lower(), character by character (by halves, to keep the recursion shallow)
RECURSIVE Lower(_)
Lower(s) ==
  IF Len(s) = 0 THEN ""
  ELSE IF Len(s) = 1 THEN LowerChar(s)
  ELSE LET h == Len(s) \div 2
       IN Lower(SubSeq(s, 1, h)) \o Lower(SubSeq(s, h + 1, Len(s)))

\* Python's "kw in text"
Contains(text, kw) ==
  \E i \in 1..(Len(text) - Len(kw) + 1) : SubSeq(text, i, i + Len(kw) - 1) = kw

\* any(kw in text for kw in keywords)
AnyIn(keywords, text) == \E k \in 1..Len(keywords) : Contains(text, keywords[k])

\* kw in text.lower(), compared character by character
InLower(kw, text) ==
  \E i \in 1..(Len(text) - Len(kw) + 1) :
    \A j \in 1..Len(kw) : LowerChar(CharAt(text, i + j - 1)) = CharAt(kw, j)

IsSpace(c) == c \in {" ", "\n", "\t", "\r"}

LStrip(s) == SubSeq(s, Min({i \in 1..Len(s) : ~IsSpace(CharAt(s, i))} \cup {Len(s) + 1}), Len(s))

RStrip(s) == SubSeq(s, 1, Max({i \in 1..Len(s) : ~IsSpace(CharAt(s, i))} \cup {0}))

\* str.strip()
Strip(s) == RStrip(LStrip(s))

DigitValue ==
  [c \in {"0", "1", "2", "3", "4", "5", "6", "7", "8", "9"} |->
     CASE c = "0" -> 0 [] c = "1" -> 1 [] c = "2" -> 2 [] c = "3" -> 3 [] c = "4" -> 4
       [] c = "5" -> 5 [] c = "6" -> 6 [] c = "7" -> 7 [] c = "8" -> 8 [] c = "9" -> 9]

IsDigit(c) == c \in DOMAIN DigitValue

\* int("123")
RECURSIVE ParseInt(_)
ParseInt(s) ==
  IF Len(s) = 0 THEN 0
  ELSE 10 * ParseInt(SubSeq(s, 1, Len(s) - 1)) + DigitValue[CharAt(s, Len(s))]

(***************************************************************************)
(* Keyword lists                                                           *)
(***************************************************************************)
\* The lists hold the ASCII keywords of the source lists. The Hangul keywords
\* are left out: every text of the model is ASCII, and a Hangul keyword is a
\* substring of no ASCII text.

\* utils/diagnostics.py
_CAUSE_SIGNALS ==
  <<"why", "reason", "cause", "diagnostic", "root cause", "increase", "spike", "sudden">>

_METRIC_SIGNALS == <<"latency", "response time", "tokens", "token", "cost">>

_LATENCY_KEYWORDS == <<"latency", "delay">>

_TOKEN_KEYWORDS == <<"token", "tokens", "cost", "usage">>

\* backend/observability_agent/agents/router.py
DISALLOWED_KEYWORDS ==
  <<"delete", "drop", "destroy", "truncate", "wipe", "shutdown", "disable", "attack">>

ANALYTICS_KEYWORDS ==
  <<"latency", "delay", "token", "metric", "data", "run", "agent", "tool", "chart",
    "graph", "observability">>

chart_keywords ==
  <<"chart", "graph", "plot", "visualize", "bar chart", "line chart", "pie chart",
    "visualization">>

\* src/observability_agent/agents/router.py (DISALLOWED_KEYWORDS is the same list)
ANALYTICS_KEYWORDS_clarifier ==
  <<"latency", "token", "metric", "run", "agent", "tool", "chart", "observability">>

chart_keywords_clarifier ==
  <<"chart", "graph", "plot", "visualize", "bar chart", "line chart", "pie chart">>

TABLE_NAMES == <<"agent_runs", "call_model", "call_tool", "call_chain">>

\* src/observability_agent/agents/planner.py
planner_chart_keywords ==
  <<"chart", "graph", "visualize", "plot", "stacked", "line chart", "bar chart">>

KeywordLists ==
  {_CAUSE_SIGNALS, _METRIC_SIGNALS, _LATENCY_KEYWORDS, _TOKEN_KEYWORDS, DISALLOWED_KEYWORDS,
   ANALYTICS_KEYWORDS, chart_keywords, ANALYTICS_KEYWORDS_clarifier, chart_keywords_clarifier,
   TABLE_NAMES, planner_chart_keywords}

Keywords == UNION {{l[k] : k \in 1..Len(l)} : l \in KeywordLists}

(***************************************************************************)
(* Texts of the model                                                      *)
(***************************************************************************)
\* src/observability_agent/agents/router.py
build_resolved_query(original, answer) ==
  LET o == Strip(IF original = None THEN "" ELSE original)
      a == Strip(IF answer = None THEN "" ELSE answer)
  IN IF o = "" THEN a
     ELSE IF a = "" THEN o
     ELSE o \o "\nClarified details: " \o a

\* User utterances.
UserTexts ==
  {"",
   "drop all tables",
   "hello there",
   "list the slowest runs in agent_runs",
   "draw a bar chart of latency by tool",
   "why did latency spike in the last 4 hours",
   "why did token cost increase over 2 days in call_model",
   "why is call_tool latency up? plot it",
   "latency spike in 0 hours, reason?",
   "call_model",
   "agent_runs",
   "Delete the latency chart",
   "plot it",
   "show token usage for call_model",
   "show a visualization of token usage"}

\* Utterances of the turns after the first.
FollowUpTexts == {"draw a bar chart of latency by tool", "hello there"}

\* Utterances that meet a clarification request.
AnswerTexts ==
  {"", "drop all tables", "agent_runs", "call_model", "plot it",
   "why did latency spike in the last 4 hours"}

\* Requests that were met with a clarification request.
ClarifiedRequests ==
  {"why did latency spike in the last 4 hours", "draw a bar chart of latency by tool",
   "show token usage"}

Texts ==
  UserTexts \cup FollowUpTexts \cup AnswerTexts \cup ClarifiedRequests
  \cup {build_resolved_query(o, a) : o \in ClarifiedRequests, a \in AnswerTexts}

\* The keywords that occur in the lowered text, tabulated for the texts of the model.
KeywordTable == [t \in Texts |-> {kw \in Keywords : InLower(kw, t)}]

\* any(keyword in text.lower() for keyword in keywords)
AnyInLower(keywords, text) == \E k \in 1..Len(keywords) : keywords[k] \in KeywordTable[text]

(***************************************************************************)
(* utils/diagnostics.py                                                    *)
(***************************************************************************)
DEFAULT_DIAGNOSTIC_WINDOW_HOURS == 24

\* has_cause and has_metric on the lowered text; False for an empty text.
is_diagnostics_intent(text) ==
  /\ text # ""
  /\ AnyInLower(_CAUSE_SIGNALS, text)
  /\ AnyInLower(_METRIC_SIGNALS, text)

infer_target_metric(text) ==
  LET has_latency == AnyInLower(_LATENCY_KEYWORDS, text)
      has_tokens == AnyInLower(_TOKEN_KEYWORDS, text)
  IN IF has_latency /\ has_tokens THEN "both"
     ELSE IF has_tokens THEN "tokens"
     ELSE "latency"

\* End of the run of characters satisfying the test that starts at i (i - 1 if none).
RECURSIVE DigitRunEnd(_, _)
DigitRunEnd(s, i) ==
  IF i <= Len(s) /\ IsDigit(CharAt(s, i)) THEN DigitRunEnd(s, i + 1) ELSE i - 1

RECURSIVE SpaceRunEnd(_, _)
SpaceRunEnd(s, i) ==
  IF i <= Len(s) /\ IsSpace(CharAt(s, i)) THEN SpaceRunEnd(s, i + 1) ELSE i - 1

StartsWithAt(s, i, u) == i + Len(u) - 1 <= Len(s) /\ SubSeq(s, i, i + Len(u) - 1) = u

\* The pattern (\d+)\s*(u1|u2|...) matches the lowered text at position i
\* (re.IGNORECASE).
NumberUnitMatchAt(low, i, units) ==
  /\ i <= Len(low)
  /\ IsDigit(CharAt(low, i))
  /\ LET k == SpaceRunEnd(low, DigitRunEnd(low, i) + 1) + 1
     IN \E u \in 1..Len(units) : StartsWithAt(low, k, units[u])

\* Start positions of the matches of the pattern in the lowered text.
MatchPositions(low, units) == {i \in 1..Len(low) : NumberUnitMatchAt(low, i, units)}

\* int(match.group(1)) for the leftmost match, NoneInt without a match.
GroupAsInt(text, hits) ==
  IF hits = {} THEN NoneInt
  ELSE ParseInt(SubSeq(text, Min(hits), DigitRunEnd(text, Min(hits))))

\* re.search(pattern, text, re.IGNORECASE)
SearchNumberUnit(text, units) == GroupAsInt(text, MatchPositions(Lower(text), units))

HOUR_UNITS == <<"hour", "hours">>
DAY_UNITS == <<"day", "days">>

\* The hours for the two search results: the hour match comes first.
WindowOfMatches(hour_match, day_match) ==
  IF hour_match # NoneInt THEN hour_match
  ELSE IF day_match # NoneInt THEN day_match * 24
  ELSE NoneInt

extract_window_hours_from_text(text) ==
  IF text = "" THEN NoneInt
  ELSE WindowOfMatches(SearchNumberUnit(text, HOUR_UNITS), SearchNumberUnit(text, DAY_UNITS))

HINT_KEYS == <<"time_window_hours", "window_hours", "recent_window_hours">>

\* A hints dict is the set of its <<key, value>> items, the values numbers.
\* First hint key present, in key order; NoneInt when there is none.
extract_window_from_hints(hints) ==
  LET present == {k \in 1..Len(HINT_KEYS) : \E item \in hints : item[1] = HINT_KEYS[k]}
  IN IF present = {} THEN NoneInt
     ELSE LET first == CHOOSE k \in present : \A j \in present : k <= j
          IN (CHOOSE item \in hints : item[1] = HINT_KEYS[first])[2]

\* Python truthiness of an Optional[int]: None and 0 are falsy.
TruthyInt(n) == n # NoneInt /\ n # 0

\* Python's "a or b" on Optional[int]
OrInt(a, b) == IF TruthyInt(a) THEN a ELSE b

(***************************************************************************)
(* Conversation state (core/state.py) and messages                         *)
(***************************************************************************)
AgentName ==
  {"planner", "metrics_agent", "chart_agent", "clarifier_agent", "refusal_agent",
   "diagnostics_summary_agent", "complete"}

HumanMessage(text) == [type |-> "human", content |-> text]
AIMessage(text) == [type |-> "ai", content |-> text]

\* backend/observability_agent/agents/router.py, agents/refusal.py
REFUSAL_MESSAGE == "I cannot help with this request"

\* src/observability_agent/agents/refusal.py (the Korean wording of the same refusal)
REFUSAL_MESSAGE_KO == "I cannot help with this request (ko)"

\* Content of the last human message, None when there is none.
RECURSIVE LastHumanFrom(_, _)
LastHumanFrom(msgs, i) ==
  IF i = 0 THEN None
  ELSE IF msgs[i].type = "human" THEN msgs[i].content
  ELSE LastHumanFrom(msgs, i - 1)

_extract_last_user_message(st) == LastHumanFrom(st.messages, Len(st.messages))

\* bool(state.get("last_rows"))
HasData(st) == st.last_rows # <<>>

(***************************************************************************)
(* Router, backend generation (backend/observability_agent/agents/router.py)*)
(***************************************************************************)
_is_disallowed_request(text) == AnyInLower(DISALLOWED_KEYWORDS, text)

_is_analytics_request(text) == AnyInLower(ANALYTICS_KEYWORDS, text)

\* The diagnostics context a message gives on entering diagnostics mode.
DiagnosticsContextFor(text, window_hours) ==
  [target_metric |-> infer_target_metric(text),
   baseline_window_hours |-> window_hours,
   recent_window_hours |-> window_hours,
   results |-> <<>>]

\* detected_hours or DEFAULT_DIAGNOSTIC_WINDOW_HOURS
WindowHours(text) ==
  OrInt(extract_window_hours_from_text(text), DEFAULT_DIAGNOSTIC_WINDOW_HOURS)

\* The state as _enter_diagnostics_mode leaves it; the call returns
\* is_diagnostics_intent(text).
_enter_diagnostics_mode(st, text) ==
  IF ~is_diagnostics_intent(text) THEN st
  ELSE [st EXCEPT !.plan_mode = "diagnostics",
                  !.diagnostics_context = DiagnosticsContextFor(text, WindowHours(text))]

\* A faulty default flow: a chart keyword goes to the chart agent without a look
\* at last_rows.
_route_default_flow_chart_always(st, llm, user_text) ==
  IF AnyInLower(chart_keywords, user_text)
  THEN [agent |-> "chart_agent", refusal |-> None, st |-> st, calls |-> <<>>]
  ELSE [agent |-> IF llm = "raise" THEN "metrics_agent" ELSE llm, refusal |-> None,
        st |-> st, calls |-> <<"routing">>]

\* A faulty default flow: a failed routing call falls back to the planner.
_route_default_flow_planner_on_failure(st, llm, user_text) ==
  IF AnyInLower(chart_keywords, user_text)
  THEN [agent |-> IF HasData(st) THEN "chart_agent" ELSE "planner", refusal |-> None,
        st |-> st, calls |-> <<>>]
  ELSE [agent |-> IF llm = "raise" THEN "planner" ELSE llm, refusal |-> None,
        st |-> st, calls |-> <<"routing">>]

\* llm is the outcome of the structured routing call: "raise" or an agent name.
\* calls lists the capability calls made.
_route_default_flow(st, llm, user_text) ==
  IF AnyInLower(chart_keywords, user_text)
  THEN [agent |-> IF HasData(st) THEN "chart_agent" ELSE "planner", refusal |-> None,
        st |-> st, calls |-> <<>>]
  ELSE [agent |-> IF llm = "raise" THEN "metrics_agent" ELSE llm, refusal |-> None,
        st |-> st, calls |-> <<"routing">>]

\* A faulty classification: the chart rule is tried before the diagnostics rule.
route_from_user_message_chart_first(st, llm) ==
  LET user_text == _extract_last_user_message(st)
  IN IF user_text = None \/ user_text = ""
     THEN [agent |-> "metrics_agent", refusal |-> None, st |-> st, calls |-> <<>>]
     ELSE IF _is_disallowed_request(user_text)
     THEN [agent |-> "complete", refusal |-> REFUSAL_MESSAGE, st |-> st, calls |-> <<>>]
     ELSE IF ~_is_analytics_request(user_text)
     THEN [agent |-> "complete", refusal |-> REFUSAL_MESSAGE, st |-> st, calls |-> <<>>]
     ELSE IF AnyInLower(chart_keywords, user_text)
     THEN _route_default_flow(st, llm, user_text)
     ELSE IF is_diagnostics_intent(user_text)
     THEN [agent |-> "planner", refusal |-> None,
           st |-> _enter_diagnostics_mode(st, user_text), calls |-> <<>>]
     ELSE _route_default_flow(st, llm, user_text)

\* (agent_name, refusal message or None) with the state as mutated in place.
route_from_user_message(st, llm) ==
  LET user_text == _extract_last_user_message(st)
  IN IF user_text = None \/ user_text = ""
     THEN [agent |-> "metrics_agent", refusal |-> None, st |-> st, calls |-> <<>>]
     ELSE IF _is_disallowed_request(user_text)
     THEN [agent |-> "complete", refusal |-> REFUSAL_MESSAGE, st |-> st, calls |-> <<>>]
     ELSE IF ~_is_analytics_request(user_text)
     THEN [agent |-> "complete", refusal |-> REFUSAL_MESSAGE, st |-> st, calls |-> <<>>]
     ELSE IF is_diagnostics_intent(user_text)
     THEN [agent |-> "planner", refusal |-> None,
           st |-> _enter_diagnostics_mode(st, user_text), calls |-> <<>>]
     ELSE _route_default_flow(st, llm, user_text)

\* state.get("clarification", DEFAULT_CLARIFICATION) of core/state_utils.py
DEFAULT_CLARIFICATION == [status |-> "none"]

\* agent_state_update: the returned delta carries every channel of the state
\* (has_error is no channel of ObsState and is never part of a delta).
agent_state_update(st, new_messages, active_agent, updates) ==
  LET base == [st EXCEPT !.messages = new_messages,
                         !.active_agent = active_agent,
                         !.clarification =
                            IF st.clarification = Absent THEN DEFAULT_CLARIFICATION
                            ELSE st.clarification]
  IN [k \in DOMAIN base |-> IF k \in DOMAIN updates THEN updates[k] ELSE base[k]]

\* A terminal branch that leaves the plan, the cursor and the mode as they are.
RouterComplete_keeps_plan(st) ==
  agent_state_update(st, <<>>, "complete",
                     [plan |-> st.plan, plan_step_index |-> st.plan_step_index])

\* The "complete" delta of the router's terminal branches.
RouterComplete(st) ==
  agent_state_update(st, <<>>, "complete",
                     [plan |-> <<>>, plan_step_index |-> 0, plan_mode |-> "default"])

\* The delta for the decision r of route_from_user_message.
RoutedUpdate(r) ==
  [delta |-> agent_state_update(r.st,
                IF r.refusal # None THEN <<AIMessage(r.refusal)>> ELSE <<>>,
                r.agent,
                [plan |-> r.st.plan, plan_step_index |-> r.st.plan_step_index]),
   rule |-> "classify", calls |-> r.calls]

\* A faulty router: the plan rule is tested before the error flag.
router_agent_node_plan_first(st, llm) ==
  IF st.plan # <<>> /\ st.plan_step_index < Len(st.plan)
  THEN [delta |-> agent_state_update(st, <<>>,
                     Get(st.plan[st.plan_step_index + 1], "agent", "metrics_agent"),
                     [plan |-> st.plan, plan_step_index |-> st.plan_step_index]),
        rule |-> "plan", calls |-> <<>>]
  ELSE IF st.has_error
  THEN [delta |-> RouterComplete(st), rule |-> "error", calls |-> <<>>]
  ELSE IF st.plan # <<>> /\ st.plan_step_index >= Len(st.plan)
  THEN [delta |-> RouterComplete(st), rule |-> "exhausted", calls |-> <<>>]
  ELSE IF st.plan = <<>> /\ st.plan_step_index > 0
  THEN [delta |-> RouterComplete(st), rule |-> "done", calls |-> <<>>]
  ELSE RoutedUpdate(route_from_user_message(st, llm))

\* A faulty router: a moved cursor without a plan does not end the turn.
router_agent_node_no_done_rule(st, llm) ==
  IF st.has_error
  THEN [delta |-> RouterComplete(st), rule |-> "error", calls |-> <<>>]
  ELSE IF st.plan # <<>> /\ st.plan_step_index < Len(st.plan)
  THEN [delta |-> agent_state_update(st, <<>>,
                     Get(st.plan[st.plan_step_index + 1], "agent", "metrics_agent"),
                     [plan |-> st.plan, plan_step_index |-> st.plan_step_index]),
        rule |-> "plan", calls |-> <<>>]
  ELSE IF st.plan # <<>> /\ st.plan_step_index >= Len(st.plan)
  THEN [delta |-> RouterComplete(st), rule |-> "exhausted", calls |-> <<>>]
  ELSE RoutedUpdate(route_from_user_message(st, llm))

\* The delta returned by the router node, the rule it took and the capability
\* calls it made.
router_agent_node(st, llm) ==
  IF st.has_error
  THEN [delta |-> RouterComplete(st), rule |-> "error", calls |-> <<>>]
  ELSE IF st.plan # <<>> /\ st.plan_step_index < Len(st.plan)
  THEN [delta |-> agent_state_update(st, <<>>,
                     Get(st.plan[st.plan_step_index + 1], "agent", "metrics_agent"),
                     [plan |-> st.plan, plan_step_index |-> st.plan_step_index]),
        rule |-> "plan", calls |-> <<>>]
  ELSE IF st.plan # <<>> /\ st.plan_step_index >= Len(st.plan)
  THEN [delta |-> RouterComplete(st), rule |-> "exhausted", calls |-> <<>>]
  ELSE IF st.plan = <<>> /\ st.plan_step_index > 0
  THEN [delta |-> RouterComplete(st), rule |-> "done", calls |-> <<>>]
  ELSE RoutedUpdate(route_from_user_message(st, llm))

(***************************************************************************)
(* Graph (backend/observability_agent/core/graph.py)                       *)
(***************************************************************************)
valid_agents == {"metrics_agent", "chart_agent", "diagnostics_summary_agent"}

\* A faulty edge: the step is read at the head of the plan, not at the cursor.
route_from_state_first_step(st) ==
  IF st.plan # <<>> /\ st.plan_step_index < Len(st.plan)
  THEN LET agent == Get(st.plan[1], "agent", "metrics_agent")
       IN IF agent \in valid_agents THEN agent ELSE "metrics_agent"
  ELSE IF st.plan # <<>> /\ st.plan_step_index >= Len(st.plan) THEN "complete"
  ELSE IF st.plan = <<>> /\ st.plan_step_index > 0 THEN "complete"
  ELSE IF st.active_agent = "planner" THEN "planner"
  ELSE IF st.active_agent \in valid_agents THEN st.active_agent
  ELSE "complete"

\* The conditional edge after the router: the next node, "complete" for END.
route_from_state(st) ==
  IF st.plan # <<>> /\ st.plan_step_index < Len(st.plan)
  THEN LET agent == Get(st.plan[st.plan_step_index + 1], "agent", "metrics_agent")
       IN IF agent \in valid_agents THEN agent ELSE "metrics_agent"
  ELSE IF st.plan # <<>> /\ st.plan_step_index >= Len(st.plan) THEN "complete"
  ELSE IF st.plan = <<>> /\ st.plan_step_index > 0 THEN "complete"
  ELSE IF st.active_agent = "planner" THEN "planner"
  ELSE IF st.active_agent \in valid_agents THEN st.active_agent
  ELSE "complete"

(***************************************************************************)
(* Router, clarifier generation (src/observability_agent/agents/router.py) *)
(***************************************************************************)
DEFAULT_FOLLOWUP == "Could you be more specific?"

TABLE_SELECTION_PROMPT == "Which table? agent_runs / call_model / call_tool / call_chain"

_is_analytics_request_clarifier(text) == AnyInLower(ANALYTICS_KEYWORDS_clarifier, text)

_mentions_allowed_table(text) == AnyInLower(TABLE_NAMES, text)

\* hint_hours or detected_hours or DEFAULT_DIAGNOSTIC_WINDOW_HOURS
WindowHours_clarifier(text, hints) == OrInt(extract_window_from_hints(hints), WindowHours(text))

\* The state as _enter_diagnostics_mode leaves it; the call returns
\* is_diagnostics_intent(text).
_enter_diagnostics_mode_clarifier(st, text, hints) ==
  IF ~is_diagnostics_intent(text) THEN st
  ELSE [st EXCEPT !.plan_mode = "diagnostics",
                  !.diagnostics_context =
                     DiagnosticsContextFor(text, WindowHours_clarifier(text, hints))]

_route_default_flow_clarifier(st, llm, user_text) ==
  IF AnyInLower(chart_keywords_clarifier, user_text)
  THEN [agent |-> IF HasData(st) THEN "chart_agent" ELSE "planner", st |-> st,
        calls |-> <<>>]
  ELSE [agent |-> IF llm = "raise" THEN "metrics_agent" ELSE llm, st |-> st,
        calls |-> <<"routing">>]

\* if _enter_diagnostics_mode(state, text, hints): return "planner"
\* return _route_default_flow(state, llm, text)
\* with the hints of state["clarification"], as both callers pass them.
DiagnosticsOrDefaultFlow(st, llm, text) ==
  IF is_diagnostics_intent(text)
  THEN [agent |-> "planner",
        st |-> _enter_diagnostics_mode_clarifier(st, text, Get(st.clarification, "hints", {})),
        calls |-> <<>>]
  ELSE _route_default_flow_clarifier(st, llm, text)

_trigger_table_followup(st, original_text) ==
  [agent |-> "clarifier_agent", calls |-> <<>>,
   st |-> [st EXCEPT !.clarification =
             [status |-> "pending",
              question |-> TABLE_SELECTION_PROMPT,
              original_user_message |-> original_text,
              resolved_query |-> None,
              hints |-> {},
              required_detail |-> "table_name"]]]

\* clar_state after the answer is merged into the original request.
ResolvedClarification(clar_state, resolved_query) ==
  DictPop(DictSet(DictSet(clar_state, "resolved_query", resolved_query), "status", "resolved"),
          "required_detail")

\* The tail of _handle_pending_clarification, for the resolved query.
ContinueResolved(st, llm, resolved_query) ==
  DiagnosticsOrDefaultFlow(
    [st EXCEPT !.clarification = ResolvedClarification(st.clarification, resolved_query)],
    llm, resolved_query)

\* A faulty handler: the answer is merged into resolved_query, but the
\* classification goes on with the raw answer.
_handle_pending_clarification_raw_answer(st, user_text, llm) ==
  IF Get(st.clarification, "status", None) # "pending"
  THEN [agent |-> None, st |-> st, calls |-> <<>>]
  ELSE IF _is_disallowed_request(user_text)
  THEN [agent |-> "refusal_agent", calls |-> <<>>,
        st |-> [st EXCEPT !.clarification = DictSet(st.clarification, "status", "none")]]
  ELSE IF Get(st.clarification, "required_detail", None) = "table_name"
          /\ ~_mentions_allowed_table(user_text)
  THEN [agent |-> "clarifier_agent", calls |-> <<>>,
        st |-> [st EXCEPT !.clarification =
                  DictSet(st.clarification, "question", TABLE_SELECTION_PROMPT)]]
  ELSE DiagnosticsOrDefaultFlow(
         [st EXCEPT !.clarification =
            ResolvedClarification(st.clarification,
              build_resolved_query(Get(st.clarification, "original_user_message", None),
                                   user_text))],
         llm, user_text)

\* agent is None when no clarification is pending.
_handle_pending_clarification(st, user_text, llm) ==
  IF Get(st.clarification, "status", None) # "pending"
  THEN [agent |-> None, st |-> st, calls |-> <<>>]
  ELSE IF _is_disallowed_request(user_text)
  THEN [agent |-> "refusal_agent", calls |-> <<>>,
        st |-> [st EXCEPT !.clarification = DictSet(st.clarification, "status", "none")]]
  ELSE IF Get(st.clarification, "required_detail", None) = "table_name"
          /\ ~_mentions_allowed_table(user_text)
  THEN [agent |-> "clarifier_agent", calls |-> <<>>,
        st |-> [st EXCEPT !.clarification =
                  DictSet(st.clarification, "question", TABLE_SELECTION_PROMPT)]]
  ELSE ContinueResolved(st, llm,
         build_resolved_query(Get(st.clarification, "original_user_message", None), user_text))

_maybe_require_table_choice(st, user_text) ==
  IF user_text = "" \/ _mentions_allowed_table(user_text)
  THEN [agent |-> None, st |-> st, calls |-> <<>>]
  ELSE _trigger_table_followup(st, user_text)

\* The decision used when the clarification call raises.
ClarifierErrorDecision ==
  [need_clarification |-> FALSE, followup_question |-> None, suggested_hints_schema |-> {}]

\* r with the capability calls made before it put in front.
AfterCalls(calls, r) == [r EXCEPT !.calls = calls \o @]

\* The part of route_from_user_message after the clarification call; decision is
\* the ClarificationDecision in force.
ApplyDecision(st0, llm, user_text, decision) ==
  IF decision.need_clarification
  THEN [agent |-> "clarifier_agent", calls |-> <<"clarification">>,
        st |-> [st0 EXCEPT !.clarification =
                  [status |-> "pending",
                   question |-> IF decision.followup_question \in {None, ""}
                                THEN DEFAULT_FOLLOWUP
                                ELSE decision.followup_question,
                   original_user_message |-> user_text,
                   resolved_query |-> None,
                   hints |-> decision.suggested_hints_schema]]]
  ELSE AfterCalls(<<"clarification">>,
         DiagnosticsOrDefaultFlow(
           [st0 EXCEPT !.clarification =
              [status |-> "none",
               original_user_message |-> user_text,
               resolved_query |-> None,
               hints |-> decision.suggested_hints_schema]],
           llm, user_text))

\* First of the two decisions whose agent is not None, else the third.
FirstDecision(pending, table, otherwise) ==
  IF pending.agent # None THEN pending
  ELSE IF table.agent # None THEN table
  ELSE otherwise

\* The part of route_from_user_message for a non-empty user text; st0 is the state
\* with state["clarification"] set.
RouteText(st0, llm, clar, user_text) ==
  IF _is_disallowed_request(user_text) \/ ~_is_analytics_request_clarifier(user_text)
  THEN [agent |-> "refusal_agent", calls |-> <<>>,
        st |-> [st0 EXCEPT !.clarification = [status |-> "none"]]]
  ELSE FirstDecision(
         _handle_pending_clarification(st0, user_text, llm),
         _maybe_require_table_choice(st0, user_text),
         ApplyDecision(st0, llm, user_text,
                       IF clar = Raised THEN ClarifierErrorDecision ELSE clar))

\* state["clarification"] = state.get("clarification") or {"status": "none"}
WithClarification(st) ==
  [st EXCEPT !.clarification = IF @ = Absent THEN [status |-> "none"] ELSE @]

\* llm: outcome of the routing call; clar: outcome of the clarification call,
\* Raised or a ClarificationDecision.
route_from_user_message_clarifier(st, llm, clar) ==
  LET user_text == _extract_last_user_message(st)
  IN IF user_text = None THEN [agent |-> "metrics_agent", st |-> st, calls |-> <<>>]
     ELSE IF user_text = ""
     THEN [agent |-> "metrics_agent", st |-> WithClarification(st), calls |-> <<>>]
     ELSE RouteText(WithClarification(st), llm, clar, user_text)

\* The delta for the decision r of route_from_user_message; this generation
\* emits no message itself.
RoutedUpdate_clarifier(r) ==
  [delta |-> agent_state_update(r.st, <<>>, r.agent,
                [plan |-> r.st.plan, plan_step_index |-> r.st.plan_step_index]),
   rule |-> "classify", calls |-> r.calls]

\* This generation has no has_error branch.
router_agent_node_clarifier(st, llm, clar) ==
  IF st.plan # <<>> /\ st.plan_step_index < Len(st.plan)
  THEN [delta |-> agent_state_update(st, <<>>,
                     Get(st.plan[st.plan_step_index + 1], "agent", "metrics_agent"),
                     [plan |-> st.plan, plan_step_index |-> st.plan_step_index]),
        rule |-> "plan", calls |-> <<>>]
  ELSE IF st.plan # <<>> /\ st.plan_step_index >= Len(st.plan)
  THEN [delta |-> RouterComplete(st), rule |-> "exhausted", calls |-> <<>>]
  ELSE IF st.plan = <<>> /\ st.plan_step_index > 0
  THEN [delta |-> RouterComplete(st), rule |-> "done", calls |-> <<>>]
  ELSE RoutedUpdate_clarifier(route_from_user_message_clarifier(st, llm, clar))

\* The graph of this generation is not in the repository's files: its
\* conditional edge is the backend one with the clarifier and refusal agents
\* as further nodes (spec section 4.6).
valid_agents_clarifier == valid_agents \cup {"clarifier_agent", "refusal_agent"}

route_from_state_clarifier(st) ==
  IF st.plan # <<>> /\ st.plan_step_index < Len(st.plan)
  THEN LET agent == Get(st.plan[st.plan_step_index + 1], "agent", "metrics_agent")
       IN IF agent \in valid_agents_clarifier THEN agent ELSE "metrics_agent"
  ELSE IF st.plan # <<>> /\ st.plan_step_index >= Len(st.plan) THEN "complete"
  ELSE IF st.plan = <<>> /\ st.plan_step_index > 0 THEN "complete"
  ELSE IF st.active_agent = "planner" THEN "planner"
  ELSE IF st.active_agent \in valid_agents_clarifier THEN st.active_agent
  ELSE "complete"

(***************************************************************************)
(* SQL normalisation and static validation                                 *)
(* (src/observability_agent/agents/metrics.py)                             *)
(***************************************************************************)
MAX_SQL_ATTEMPTS == 3

ALLOWED_TABLES == <<"agent_runs", "call_model", "call_tool", "call_chain">>

FORBIDDEN_DML == <<"insert", "update", "delete", "drop", "create", "replace">>

\* \w of the regular expressions
IsWordChar(c) ==
  \/ IsDigit(c)
  \/ c = "_"
  \/ c \in DOMAIN UpperToLower
  \/ \E u \in DOMAIN UpperToLower : UpperToLower[u] = c

\* \b before position i: exactly one of the characters i - 1 and i is a word character.
WordBoundary(s, i) ==
  LET before == i > 1 /\ i - 1 <= Len(s) /\ IsWordChar(CharAt(s, i - 1))
      after == i >= 1 /\ i <= Len(s) /\ IsWordChar(CharAt(s, i))
  IN before # after

\* \bword\b matches somewhere in s.
HasWord(s, word) ==
  \E i \in 1..Len(s) :
    /\ StartsWithAt(s, i, word)
    /\ WordBoundary(s, i)
    /\ WordBoundary(s, i + Len(word))

\* \b(from|join)\s+table\b matches somewhere in s.
ReferencesTable(s, table) ==
  \E i \in 1..Len(s) : \E kw \in {"from", "join"} :
    /\ StartsWithAt(s, i, kw)
    /\ WordBoundary(s, i)
    /\ LET sp == SpaceRunEnd(s, i + Len(kw))
       IN /\ sp >= i + Len(kw)
          /\ StartsWithAt(s, sp + 1, table)
          /\ WordBoundary(s, sp + 1 + Len(table))

\* \bvalues\s*\( matches somewhere in s.
HasValuesClause(s) ==
  \E i \in 1..Len(s) :
    /\ StartsWithAt(s, i, "values")
    /\ WordBoundary(s, i)
    /\ StartsWithAt(s, SpaceRunEnd(s, i + 6) + 1, "(")

\* \bunion\s+all\s+select\s+' matches somewhere in s.
HasLiteralUnion(s) ==
  \E i \in 1..Len(s) :
    /\ StartsWithAt(s, i, "union")
    /\ WordBoundary(s, i)
    /\ LET a == SpaceRunEnd(s, i + 5)
       IN /\ a >= i + 5
          /\ StartsWithAt(s, a + 1, "all")
          /\ LET b == SpaceRunEnd(s, a + 4)
             IN /\ b >= a + 4
                /\ StartsWithAt(s, b + 1, "select")
                /\ LET c == SpaceRunEnd(s, b + 7)
                   IN c >= b + 7 /\ StartsWithAt(s, c + 1, "'")

\* A validation without the read-only check.
_validate_sql_without_dml_check(sql) ==
  LET lowered == Lower(sql)
  IN (IF \E t \in 1..Len(ALLOWED_TABLES) : ReferencesTable(lowered, ALLOWED_TABLES[t])
      THEN <<>> ELSE <<"no real table">>)
     \o (IF HasValuesClause(lowered) THEN <<"VALUES clause">> ELSE <<>>)
     \o (IF HasLiteralUnion(lowered) THEN <<"literal union">> ELSE <<>>)
     \o (IF HasWord(lowered, "string_agg") THEN <<"STRING_AGG">> ELSE <<>>)

\* The list of issues, in the order the checks are made.
_validate_sql(sql) ==
  LET lowered == Lower(sql)
  IN (IF \E t \in 1..Len(ALLOWED_TABLES) : ReferencesTable(lowered, ALLOWED_TABLES[t])
      THEN <<>> ELSE <<"no real table">>)
     \o (IF HasValuesClause(lowered) THEN <<"VALUES clause">> ELSE <<>>)
     \o (IF HasLiteralUnion(lowered) THEN <<"literal union">> ELSE <<>>)
     \o (IF \E k \in 1..Len(FORBIDDEN_DML) : HasWord(lowered, FORBIDDEN_DML[k])
         THEN <<"not read-only">> ELSE <<>>)
     \o (IF HasWord(lowered, "string_agg") THEN <<"STRING_AGG">> ELSE <<>>)

\* re.sub(r"(?i)string_agg", "GROUP_CONCAT", sql): every occurrence, left to right.
RECURSIVE ReplaceStringAgg(_)
ReplaceStringAgg(s) ==
  LET low == Lower(s)
      hits == {i \in 1..Len(s) : StartsWithAt(low, i, "string_agg")}
  IN IF hits = {} THEN s
     ELSE LET i == Min(hits)
          IN SubSeq(s, 1, i - 1) \o "GROUP_CONCAT" \o ReplaceStringAgg(SubSeq(s, i + 10, Len(s)))

\* First position >= i holding the character c, 0 when there is none.
IndexOf(s, c, i) ==
  LET hits == {k \in i..Len(s) : CharAt(s, k) = c}
  IN IF hits = {} THEN 0 ELSE Min(hits)

\* GROUP_CONCAT\s*\(\s*DISTINCT\s+([^)]+?),\s*[^)]+?\) at position i (re.IGNORECASE):
\* [col, end] of the match, end = 0 without a match.
DistinctDelimiterAt(s, low, i) ==
  LET nomatch == [col |-> "", end |-> 0]
  IN IF ~StartsWithAt(low, i, "group_concat") THEN nomatch
     ELSE LET p1 == SpaceRunEnd(s, i + 12) + 1
          IN IF ~StartsWithAt(s, p1, "(") THEN nomatch
             ELSE LET p2 == SpaceRunEnd(s, p1 + 1) + 1
                  IN IF ~StartsWithAt(low, p2, "distinct") THEN nomatch
                     ELSE LET p3 == SpaceRunEnd(s, p2 + 8)
                              comma == IndexOf(s, ",", p3 + 2)
                              close == IndexOf(s, ")", p3 + 1)
                          IN IF p3 < p2 + 8 \/ comma = 0 \/ close = 0
                                \/ close < comma \/ close = comma + 1
                             THEN nomatch
                             ELSE [col |-> SubSeq(s, p3 + 1, comma - 1), end |-> close]

\* re.sub of the pattern by GROUP_CONCAT(DISTINCT column): every match, left to right.
RECURSIVE StripDistinctDelimiter(_)
StripDistinctDelimiter(s) ==
  LET low == Lower(s)
      hits == {i \in 1..Len(s) : DistinctDelimiterAt(s, low, i).end # 0}
  IN IF hits = {} THEN s
     ELSE LET i == Min(hits)
              mt == DistinctDelimiterAt(s, low, i)
          IN SubSeq(s, 1, i - 1) \o "GROUP_CONCAT(DISTINCT " \o mt.col \o ")"
             \o StripDistinctDelimiter(SubSeq(s, mt.end + 1, Len(s)))

\* A normalisation that leaves the aggregate's name alone.
_normalize_sql_keeps_aggregate(sql) == StripDistinctDelimiter(sql)

_normalize_sql(sql) == StripDistinctDelimiter(ReplaceStringAgg(sql))

(***************************************************************************)
(* SQL tool (src/backend/observability_agent/tools/database.py)            *)
(***************************************************************************)
\* sql.rstrip(";")
RStripSemicolons(s) == SubSeq(s, 1, Max({i \in 1..Len(s) : CharAt(s, i) # ";"} \cup {0}))

\* Appends f" LIMIT {default_limit}" (default_limit = 100) unless
\* \bLIMIT\b (re.IGNORECASE) matches somewhere.
_ensure_limit(sql) ==
  IF ~HasWord(Lower(sql), "limit")
  THEN Strip(RStripSemicolons(sql)) \o " LIMIT 100"
  ELSE sql

\* The statement run_sql hands to cursor.execute. The tool of the clarifier
\* generation is a stub that executes nothing and leaves the statement alone.
executed_sql(v, sql) == IF v = "backend" THEN _ensure_limit(sql) ELSE sql

(***************************************************************************)
(* Planner (src/observability_agent/agents/planner.py)                     *)
(***************************************************************************)
\* A PlanStep as stored in the plan (model_dump of the schema, or the
\* fallback's dict). input_context is a string or a dict of hints.
PlanStep(n, agent) ==
  [step_number |-> n, agent |-> agent, objective |-> "objective",
   input_context |-> [kind |-> "str"], success_criteria |-> "criteria"]

\* A fallback that appends the chart step whatever the user asked.
_default_plan_chart_always(st) ==
  <<PlanStep(1, "metrics_agent"), PlanStep(2, "chart_agent")>>

\* Fallback plan: a metrics step, and a chart step when the last human
\* message holds a chart keyword.
_default_plan(st) ==
  LET last_human == _extract_last_user_message(st)
      needs_chart == last_human # None /\ AnyInLower(planner_chart_keywords, last_human)
  IN <<PlanStep(1, "metrics_agent")>>
     \o (IF needs_chart THEN <<PlanStep(2, "chart_agent")>> ELSE <<>>)

\* A skeleton without the by_agent comparison.
DIAGNOSTICS_STEP_SPECS_without_by_agent ==
  <<[name |-> "overall_change", agent |-> "metrics_agent", mode |-> "overall"],
    [name |-> "by_tool", agent |-> "metrics_agent", mode |-> "by_tool"],
    [name |-> "summarize", agent |-> "diagnostics_summary_agent"]>>

\* utils/diagnostics.py, DIAGNOSTICS_STEP_SPECS
DIAGNOSTICS_STEP_SPECS ==
  <<[name |-> "overall_change", agent |-> "metrics_agent", mode |-> "overall"],
    [name |-> "by_tool", agent |-> "metrics_agent", mode |-> "by_tool"],
    [name |-> "by_agent", agent |-> "metrics_agent", mode |-> "by_agent"],
    [name |-> "summarize", agent |-> "diagnostics_summary_agent"]>>

\* The diagnostics plan: one step per entry of DIAGNOSTICS_STEP_SPECS, in order.
\* The planner code that builds it is not among the repository's files.
build_diagnostics_plan(ctx) ==
  [i \in 1..Len(DIAGNOSTICS_STEP_SPECS) |->
     LET spec == DIAGNOSTICS_STEP_SPECS[i]
     IN [step_number |-> i,
         name |-> spec.name,
         agent |-> spec.agent,
         objective |-> spec.name,
         input_context |->
           IF "mode" \in DOMAIN spec
           THEN [kind |-> "dict",
                 metric |-> Get(ctx, "target_metric", "latency"),
                 mode |-> spec.mode,
                 baseline_hours |-> Get(ctx, "baseline_window_hours", 24),
                 recent_hours |-> Get(ctx, "recent_window_hours", 24)]
           ELSE [kind |-> "str"],
         success_criteria |-> "criteria"]]

\* The planner without its "if not plan_steps" fallback: an empty step list
\* from the planning call is stored as it is.
planner_agent_node_keeps_empty(st, llm) ==
  LET plan_steps == IF llm = Raised THEN _default_plan(st) ELSE llm.steps
  IN [st EXCEPT !.messages = <<AIMessage("planner: plan")>>,
                !.active_agent = "planner",
                !.plan = plan_steps,
                !.plan_step_index = 0]

\* llm: outcome of the structured planning call, Raised or [steps |-> the steps].
\* The delta holds messages, active_agent, last_rows, plan and plan_step_index.
planner_agent_node(st, llm) ==
  LET plan_steps == IF llm = Raised THEN _default_plan(st)
                    ELSE IF llm.steps = <<>> THEN _default_plan(st)
                    ELSE llm.steps
      plan_text == IF llm = Raised THEN "planner: fallback plan after error"
                   ELSE IF llm.steps = <<>> THEN "planner: no steps returned"
                   ELSE "planner: plan"
  IN [st EXCEPT !.messages = <<AIMessage(plan_text)>>,
                !.active_agent = "planner",
                !.plan = plan_steps,
                !.plan_step_index = 0]

\* In diagnostics mode the plan is the diagnostics skeleton.
planner_agent_node_diagnostics(st) ==
  [st EXCEPT !.messages = <<AIMessage("planner: diagnostics plan")>>,
             !.active_agent = "planner",
             !.plan = build_diagnostics_plan(st.diagnostics_context),
             !.plan_step_index = 0]

(***************************************************************************)
(* Metrics agent (src/observability_agent/agents/metrics.py)               *)
(***************************************************************************)
\* plan_steps[plan_index] if plan_steps and plan_index < len(plan_steps) else None
planner_step(st) ==
  IF st.plan # <<>> /\ st.plan_step_index < Len(st.plan)
  THEN st.plan[st.plan_step_index + 1]
  ELSE [absent |-> TRUE]

HasPlannerStep(st) == planner_step(st) # [absent |-> TRUE]

\* [{col: value for col, value in zip(columns, row)} for row in rows]
RowDict(columns, row) ==
  LET n == IF Len(columns) <= Len(row) THEN Len(columns) ELSE Len(row)
      keys == {columns[i] : i \in 1..n}
  IN [c \in keys |-> row[CHOOSE i \in 1..n : columns[i] = c /\ \A j \in 1..n : columns[j] = c => j <= i]]

row_dicts(sql_result) ==
  [i \in 1..Len(sql_result.rows) |-> RowDict(sql_result.columns, sql_result.rows[i])]

JoinIssues(issues) ==
  IF issues = <<>> THEN ""
  ELSE LET RECURSIVE J(_)
           J(i) == IF i > Len(issues) THEN "" ELSE "; " \o issues[i] \o J(i + 1)
       IN issues[1] \o J(2)

_build_sql_message(sql) == AIMessage("sql: " \o sql)

\* An error path that leaves the cursor on the failed step.
metrics_error_update_keeps_cursor(st, sql, last_error) ==
  agent_state_update(st,
    <<_build_sql_message(sql),
      AIMessage("sql rejected: " \o sql \o " | " \o last_error)>>,
    "metrics_agent",
    [plan |-> st.plan, plan_step_index |-> st.plan_step_index])

\* An error delta that raises the fatal-error flag.
metrics_error_update_sets_has_error(st, sql, last_error) ==
  agent_state_update(st,
    <<_build_sql_message(sql),
      AIMessage("sql rejected: " \o sql \o " | " \o last_error)>>,
    "metrics_agent",
    [plan |-> st.plan, plan_step_index |-> st.plan_step_index + 1, has_error |-> TRUE])

\* The error delta returned when every attempt failed.
metrics_error_update(st, sql, last_error) ==
  agent_state_update(st,
    <<_build_sql_message(sql),
      AIMessage("sql rejected: " \o sql \o " | " \o last_error)>>,
    "metrics_agent",
    [plan |-> st.plan, plan_step_index |-> st.plan_step_index + 1])

\* A store that keeps only the latest result.
store_diagnostics_result_replaces(st, step_name, description, rows) ==
  DictSet(st.diagnostics_context, "results",
          <<[name |-> step_name, description |-> description, rows |-> rows]>>)

\* The diagnostics context with the step's result appended.
store_diagnostics_result(st, step_name, description, rows) ==
  LET ctx == st.diagnostics_context
      existing_results == Get(ctx, "results", <<>>)
  IN DictSet(ctx, "results",
             Append(existing_results,
                    [name |-> step_name, description |-> description, rows |-> rows]))

\* "step_<n>" for the index n of a plan of the model.
StepLabel(n) == "step_" \o (CASE n = 1 -> "1" [] n = 2 -> "2" [] n = 3 -> "3" [] n = 4 -> "4"
                              [] OTHER -> "n")

\* The diagnostics context after a successful execution.
diagnostics_after_success(st, rows) ==
  IF st.plan_mode = "diagnostics" /\ HasPlannerStep(st)
  THEN store_diagnostics_result(
         st,
         IF Get(planner_step(st), "name", "") # "" THEN planner_step(st).name
         ELSE StepLabel(st.plan_step_index + 1),
         Get(planner_step(st), "objective", ""),
         rows)
  ELSE st.diagnostics_context

\* A cursor that always moves to the next step.
next_step_index_plain(st, rows) == st.plan_step_index + 1

\* A success path that leaves the cursor on the step it has just run.
next_step_index_stays(st, rows) == st.plan_step_index

\* plan_index + 1, or the last plan index when the overall_change step of a
\* diagnostics plan returned no rows.
next_step_index(st, rows) ==
  IF /\ st.plan_mode = "diagnostics"
     /\ HasPlannerStep(st)
     /\ Get(planner_step(st), "name", "") = "overall_change"
     /\ rows = <<>>
  THEN max(Len(st.plan) - 1, st.plan_step_index + 1)
  ELSE st.plan_step_index + 1

\* A success path that adds the new rows to the rows it found.
metrics_success_update_extends_rows(st, sql, sql_result) ==
  LET rows == row_dicts(sql_result)
  IN agent_state_update(st,
       <<_build_sql_message(sql), AIMessage("summary")>>,
       "metrics_agent",
       [last_rows |-> st.last_rows \o rows,
        plan |-> st.plan,
        plan_step_index |-> next_step_index(st, rows),
        diagnostics_context |-> diagnostics_after_success(st, rows)])

\* The delta returned after a successful execution and summary.
metrics_success_update(st, sql, sql_result) ==
  LET rows == row_dicts(sql_result)
  IN agent_state_update(st,
       <<_build_sql_message(sql), AIMessage("summary")>>,
       "metrics_agent",
       [last_rows |-> rows,
        plan |-> st.plan,
        plan_step_index |-> next_step_index(st, rows),
        diagnostics_context |-> diagnostics_after_success(st, rows)])

(***************************************************************************)
(* Chart, diagnostics-summary, clarifier and refusal agents                *)
(***************************************************************************)
\* A no-data path that moves the cursor two steps forward.
chart_no_data_update_skips_a_step(st) ==
  agent_state_update(st, <<AIMessage("chart: no data, fetch rows first")>>, "chart_agent",
    [plan |-> st.plan, plan_step_index |-> st.plan_step_index + 2])

\* A no-data path that gives the plan up.
chart_no_data_update_clears_plan(st) ==
  agent_state_update(st, <<AIMessage("chart: no data, fetch rows first")>>, "chart_agent",
                     [plan |-> <<>>, plan_step_index |-> st.plan_step_index + 1])

\* backend/observability_agent/agents/chart.py, no rows to draw
chart_no_data_update(st) ==
  agent_state_update(st, <<AIMessage("chart: no data, fetch rows first")>>, "chart_agent",
                     [plan |-> st.plan, plan_step_index |-> st.plan_step_index + 1])

\* chart_type: the chart type of the structured response, "" when it gives none
\* (the prepared metadata then suggests "bar").
\* A chart message without the "or" defaults of the specification's fields.
chart_spec_update_without_default(st, chart_type) ==
  agent_state_update(st,
    <<AIMessage("chart spec: chartType=" \o chart_type)>>,
    "chart_agent",
    [plan |-> st.plan, plan_step_index |-> st.plan_step_index + 1])

chart_spec_update(st, chart_type) ==
  agent_state_update(st,
    <<AIMessage("chart spec: chartType=" \o (IF chart_type = "" THEN "bar" ELSE chart_type))>>,
    "chart_agent",
    [plan |-> st.plan, plan_step_index |-> st.plan_step_index + 1])

\* backend/observability_agent/agents/diagnostics_summary.py
first_rows(st) ==
  LET results == Get(st.diagnostics_context, "results", <<>>)
  IN IF results # <<>> THEN Get(results[1], "rows", <<>>) ELSE <<>>

\* A summary delta that empties the results it has read.
diagnostics_summary_update_clears_results(st, content) ==
  agent_state_update(st, <<AIMessage(content)>>, "diagnostics_summary_agent",
    [plan_step_index |-> st.plan_step_index + 1,
     diagnostics_context |-> DictSet(st.diagnostics_context, "results", <<>>)])

diagnostics_summary_update(st, content) ==
  agent_state_update(st, <<AIMessage(content)>>, "diagnostics_summary_agent",
    [plan_step_index |-> st.plan_step_index + 1,
     diagnostics_context |->
       DictSet(st.diagnostics_context, "results",
               Get(st.diagnostics_context, "results", <<>>))])

\* src/observability_agent/agents/clarifier.py
clarifier_agent_node(st) ==
  LET clarification == IF st.clarification = Absent THEN [status |-> "none"] ELSE st.clarification
      question == IF Get(clarification, "question", None) \in {None, ""}
                  THEN DEFAULT_FOLLOWUP ELSE clarification.question
  IN agent_state_update(st, <<AIMessage(question)>>, "clarifier_agent",
       [plan_step_index |-> st.plan_step_index + 1,
        clarification |-> IF st.clarification = Absent THEN [status |-> "pending"]
                          ELSE st.clarification])

\* src/observability_agent/agents/refusal.py
\* A refusal that leaves the plan cursor where it was.
refusal_agent_node_keeps_cursor(st) ==
  agent_state_update(st, <<AIMessage(REFUSAL_MESSAGE_KO)>>, "refusal_agent",
    [plan_step_index |-> st.plan_step_index,
     clarification |-> [status |-> "none"],
     plan |-> <<>>])

refusal_agent_node(st) ==
  agent_state_update(st, <<AIMessage(REFUSAL_MESSAGE_KO)>>, "refusal_agent",
    [plan_step_index |-> st.plan_step_index + 1,
     clarification |-> [status |-> "none"],
     plan |-> <<>>])

(***************************************************************************)
(* Inputs of the model                                                     *)
(***************************************************************************)
\* A conversation takes a further turn while its history has at most this many messages.
MaxHistory == 3

\* Outcomes of the structured routing call.
RoutingOutcomes == {"raise"} \cup AgentName

\* Outcomes of the clarification call.
ClarificationOutcomes ==
  {Raised,
   [need_clarification |-> FALSE, followup_question |-> None, suggested_hints_schema |-> {}],
   [need_clarification |-> FALSE, followup_question |-> None,
    suggested_hints_schema |-> {<<"window_hours", 12>>}],
   [need_clarification |-> TRUE, followup_question |-> None, suggested_hints_schema |-> {}],
   [need_clarification |-> TRUE, followup_question |-> "Which time window?",
    suggested_hints_schema |-> {}]}

\* Outcomes of the structured planning call: any list of schema-valid steps
\* (PlanStep.step_number is any int, agent any AgentName).
PlannerOutcomes ==
  {Raised,
   [steps |-> <<>>],
   [steps |-> <<PlanStep(1, "metrics_agent")>>],
   [steps |-> <<PlanStep(2, "metrics_agent")>>],
   [steps |-> <<PlanStep(1, "metrics_agent"), PlanStep(2, "chart_agent")>>],
   [steps |-> <<PlanStep(1, "chart_agent"), PlanStep(2, "planner")>>]}

\* Outcomes of the SQL generation calls (initial and repair).
SqlTexts ==
  {"select String_Agg(tool_name, ',') from call_tool",
   "SELECT 1"}

\* A wider set of generated statements: one more per static check.
SqlTextsWide ==
  SqlTexts \cup
  {"DELETE FROM agent_runs",
   "select tool_name from call_tool union all select 'x'",
   "select * from call_model where 1 in (VALUES (1))",
   "select String_Agg(DISTINCT tool_name, ',') from tools",
   "select STRING_AGG(tool_name, ','), string_agg(status, ',') from call_tool",
   "select * from call_tool limit 5",
   "select * from agent_runs ;",
   "select * from call_model where error like '%rate limit%'"}

GenerationOutcomes == {"raise"} \cup SqlTexts

\* Outcomes of the SQL execution call.
SqlResults ==
  {[columns |-> <<"name", "value">>, rows |-> <<>>],
   [columns |-> <<"name", "value">>, rows |-> << <<"a", 1>>, <<"b", 2>> >>]}

ExecutionOutcomes == {Raised} \cup SqlResults

\* Outcomes of the summarisation, chart and narrative calls.
SummaryOutcomes == {"raise", "ok"}
ChartOutcomes == {"raise", "bar", ""}

\* Rows left by an earlier data step.
SomeRows == << [name |-> "old", value |-> 7] >>

(***************************************************************************)
(* State                                                                   *)
(***************************************************************************)
VARIABLES
  variant,              \* which generation of the router and graph runs
  pc,                   \* node to execute next; "END"; "raised" after an uncaught exception
  messages, active_agent, last_rows, plan, plan_step_index, plan_mode,
  diagnostics_context, clarification, has_error,   \* ObsState
  m,                    \* position and locals of the metrics agent's repair loop
  trace,                \* nodes executed in the current turn, in order
  routerLog,            \* rule taken, capability calls made and routing outcome of the last router pass
  turn,                 \* number of the current turn
  start,                \* the state the current turn started from
  caller                \* the diagnostics_context dict of the state the caller handed in

vars ==
  <<variant, pc, messages, active_agent, last_rows, plan, plan_step_index, plan_mode,
    diagnostics_context, clarification, has_error, m, trace, routerLog, turn, start,
    caller>>

obs == <<messages, active_agent, last_rows, plan, plan_step_index, plan_mode,
         diagnostics_context, clarification, has_error>>

\* The ObsState a node receives.
St ==
  [messages |-> messages, active_agent |-> active_agent, last_rows |-> last_rows,
   plan |-> plan, plan_step_index |-> plan_step_index, plan_mode |-> plan_mode,
   diagnostics_context |-> diagnostics_context, clarification |-> clarification,
   has_error |-> has_error]

\* Merge of a node's delta: add_messages appends, every other channel is overwritten.
Merged(delta) == [delta EXCEPT !.messages = messages \o delta.messages]

\* A messages channel that keeps only what the node returned.
Apply_replaces_messages(delta) ==
  /\ messages' = delta.messages
  /\ active_agent' = delta.active_agent
  /\ last_rows' = delta.last_rows
  /\ plan' = delta.plan
  /\ plan_step_index' = delta.plan_step_index
  /\ plan_mode' = delta.plan_mode
  /\ diagnostics_context' = delta.diagnostics_context
  /\ clarification' = delta.clarification
  /\ has_error' = delta.has_error

Apply(delta) ==
  /\ messages' = messages \o delta.messages
  /\ active_agent' = delta.active_agent
  /\ last_rows' = delta.last_rows
  /\ plan' = delta.plan
  /\ plan_step_index' = delta.plan_step_index
  /\ plan_mode' = delta.plan_mode
  /\ diagnostics_context' = delta.diagnostics_context
  /\ clarification' = delta.clarification
  /\ has_error' = delta.has_error

MIdle ==
  [phase |-> "idle", sql |-> "", attempt |-> 0, last_error |-> None,
   result |-> [columns |-> <<>>, rows |-> <<>>], gen_calls |-> 0, exec_calls |-> 0,
   executed |-> <<>>, ran |-> <<>>]

NoLog == [rule |-> "none", calls |-> <<>>, llm |-> "none"]

(***************************************************************************)
(* Turn entry (backend/observability_agent/utils/runner.py)                *)
(***************************************************************************)
\* The state run_obs_agent builds; prev is the previous final state or Absent.
\* It passes no clarification, so that channel starts without a value.
run_obs_agent(user_message, prev) ==
  IF prev = Absent
  THEN [messages |-> <<HumanMessage(user_message)>>,
        active_agent |-> "router",
        last_rows |-> <<>>,
        plan |-> <<>>,
        plan_step_index |-> 0,
        plan_mode |-> "default",
        diagnostics_context |-> [results |-> <<>>],
        clarification |-> Absent,
        has_error |-> FALSE]
  ELSE [messages |-> Append(prev.messages, HumanMessage(user_message)),
        active_agent |-> prev.active_agent,
        last_rows |-> prev.last_rows,
        plan |-> <<>>,
        plan_step_index |-> 0,
        plan_mode |-> prev.plan_mode,
        diagnostics_context |-> prev.diagnostics_context,
        clarification |-> Absent,
        has_error |-> FALSE]

\* States a caller hands to the graph directly (a stored ObsState plus the new message).
PendingTable(original) ==
  [status |-> "pending", question |-> TABLE_SELECTION_PROMPT,
   original_user_message |-> original, resolved_query |-> None, hints |-> {},
   required_detail |-> "table_name"]

PendingFollowup(original) ==
  [status |-> "pending", question |-> "Which time window?",
   original_user_message |-> original, resolved_query |-> None, hints |-> {}]

DirectClarifications ==
  {Absent, [status |-> "none"],
   PendingFollowup("show token usage")}
  \cup {PendingTable(o) : o \in ClarifiedRequests}

DirectPlans ==
  {<<>>,
   <<PlanStep(1, "metrics_agent"), PlanStep(2, "chart_agent")>>,
   <<PlanStep(1, "refusal_agent")>>}

DirectState(text, rows, p, i, c, e) ==
  [messages |-> <<HumanMessage(text)>>,
   active_agent |-> "router",
   last_rows |-> rows,
   plan |-> p,
   plan_step_index |-> i,
   plan_mode |-> "default",
   diagnostics_context |-> [results |-> <<>>],
   clarification |-> c,
   has_error |-> e]

\* Utterances of the states that hold a plan, a moved cursor or the error flag
\* (one refused, one diagnostics, one plain analytics).
PlanTexts ==
  {"drop all tables", "why did latency spike in the last 4 hours",
   "list the slowest runs in agent_runs"}

\* What an earlier diagnostics turn leaves in the state.
EarlierDiagnostics ==
  [target_metric |-> "tokens", baseline_window_hours |-> 2, recent_window_hours |-> 2,
   results |-> << [name |-> "overall_change", description |-> "earlier", rows |-> SomeRows] >>]

DiagnosticsTexts ==
  {"why did latency spike in the last 4 hours", "why is call_tool latency up? plot it"}

DirectStates ==
  \* no plan, cursor 0: the message is classified
  {DirectState(text, rows, <<>>, 0, Absent, FALSE) :
     text \in UserTexts, rows \in {<<>>, SomeRows}}
  \cup
  \* the same, after a clarification request
  {DirectState(text, <<>>, <<>>, 0, c, FALSE) :
     text \in AnswerTexts, c \in DirectClarifications}
  \cup
  \* a plan or a moved cursor
  {DirectState(text, rows, p, i, Absent, FALSE) :
     text \in PlanTexts, rows \in {<<>>, SomeRows}, p \in DirectPlans, i \in 0..2}
  \cup
  \* the fatal-error flag
  {DirectState(text, <<>>, p, i, Absent, TRUE) :
     text \in PlanTexts, p \in DirectPlans, i \in 0..2}
  \cup
  \* a diagnostics request after an earlier diagnostics turn
  {[DirectState(text, SomeRows, <<>>, 0, Absent, FALSE)
      EXCEPT !.plan_mode = "diagnostics", !.diagnostics_context = EarlierDiagnostics] :
     text \in DiagnosticsTexts}

StartTurn(st) ==
  /\ messages = st.messages
  /\ active_agent = st.active_agent
  /\ last_rows = st.last_rows
  /\ plan = st.plan
  /\ plan_step_index = st.plan_step_index
  /\ plan_mode = st.plan_mode
  /\ diagnostics_context = st.diagnostics_context
  /\ clarification = st.clarification
  /\ has_error = st.has_error

Init ==
  /\ variant \in {"backend", "clarifier"}
  /\ \E st \in {run_obs_agent(text, Absent) : text \in UserTexts} \cup DirectStates :
       /\ StartTurn(st)
       \* the backend router never reads the pending clarification
       /\ variant = "backend" =>
            st.clarification \in {Absent, PendingTable("draw a bar chart of latency by tool")}
       \* only the backend router reads has_error
       /\ variant = "clarifier" => ~st.has_error
  /\ pc = "router"
  /\ m = MIdle
  /\ trace = <<>>
  /\ routerLog = NoLog
  /\ turn = 1
  /\ start = St
  /\ caller = [diagnostics_context |-> diagnostics_context,
               aliased |-> variant = "backend" /\ St \in DirectStates]

\* The next turn of a conversation driven through run_obs_agent.
NewTurn ==
  /\ pc = "END"
  /\ Len(messages) <= MaxHistory
  /\ \E text \in FollowUpTexts : Apply([run_obs_agent(text, St) EXCEPT !.messages = <<HumanMessage(text)>>])
  /\ pc' = "router"
  /\ m' = MIdle
  /\ trace' = <<>>
  /\ routerLog' = NoLog
  /\ turn' = turn + 1
  /\ start' = St'
  /\ caller' = [diagnostics_context |-> diagnostics_context, aliased |-> variant = "backend"]
  /\ UNCHANGED variant

(***************************************************************************)
(* Nodes                                                                   *)
(***************************************************************************)
\* The router's classification assigns a new dict to state["diagnostics_context"]
\* when it enters diagnostics mode; the caller's dict is then no longer the
\* one the turn works on.
enters_diagnostics_mode(st) ==
  LET user_text == _extract_last_user_message(st)
  IN /\ user_text \notin {None, ""}
     /\ ~_is_disallowed_request(user_text)
     /\ _is_analytics_request(user_text)
     /\ is_diagnostics_intent(user_text)

\* A router that fills the dict it was given instead of assigning a new one.
caller_after_router_in_place(c, st, rule) == c

caller_after_router(c, st, rule) ==
  IF rule = "classify" /\ enters_diagnostics_mode(st)
  THEN [c EXCEPT !.aliased = FALSE]
  ELSE c

\* store_diagnostics_result appends to the results list of the dict it reads and
\* writes the list back into that dict, in place; the summary agent copies the
\* dict and keeps its results list ("or []" makes a new list of an empty one).
caller_after_step(c, node, st, delta) ==
  IF ~c.aliased THEN c
  ELSE IF node = "metrics_agent" /\ delta.diagnostics_context # st.diagnostics_context
  THEN [c EXCEPT !.diagnostics_context =
                    DictSet(@, "results", Get(delta.diagnostics_context, "results", <<>>))]
  ELSE IF node = "diagnostics_summary_agent"
  THEN [c EXCEPT !.aliased = Get(st.diagnostics_context, "results", <<>>) # <<>>]
  ELSE c

\* A node returned delta; control goes back to the router.
Return(node, delta) ==
  /\ Apply(delta)
  /\ pc' = "router"
  /\ trace' = Append(trace, node)
  /\ caller' = caller_after_step(caller, node, St, delta)
  /\ UNCHANGED <<variant, routerLog, turn, start>>

\* An exception escaped the node: the turn ends without a final state.
Raise(node) ==
  /\ pc' = "raised"
  /\ trace' = Append(trace, node)
  /\ UNCHANGED <<variant, routerLog, turn, start, obs, caller>>

\* An outcome other than a failure is drawn for a capability call only on a pass
\* that makes the call.
Called(r, call) == \E k \in 1..Len(r.calls) : r.calls[k] = call

\* The router node followed by the graph's conditional edge.
RouterStep(r, next, llm) ==
  /\ Apply(r.delta)
  /\ pc' = IF next = "complete" THEN "END" ELSE next
  /\ routerLog' = [rule |-> r.rule, calls |-> r.calls,
                   llm |-> IF Called(r, "routing") THEN llm ELSE "none"]
  /\ trace' = Append(trace, "router")
  /\ caller' = caller_after_router(caller, St, r.rule)
  /\ UNCHANGED <<variant, m, turn, start>>

Router ==
  /\ pc = "router"
  /\ variant = "backend"
  /\ \E llm \in RoutingOutcomes : \E r \in {router_agent_node(St, llm)} :
       /\ llm = "raise" \/ Called(r, "routing")
       /\ RouterStep(r, route_from_state(Merged(r.delta)), llm)

RouterClarifier ==
  /\ pc = "router"
  /\ variant = "clarifier"
  /\ \E clar \in ClarificationOutcomes : \E llm \in RoutingOutcomes :
       \E r \in {router_agent_node_clarifier(St, llm, clar)} :
         /\ clar = Raised \/ Called(r, "clarification")
         /\ llm = "raise" \/ Called(r, "routing")
         /\ RouterStep(r, route_from_state_clarifier(Merged(r.delta)), llm)

Planner ==
  /\ pc = "planner"
  /\ \/ /\ plan_mode = "diagnostics"
        /\ Return("planner", planner_agent_node_diagnostics(St))
     \/ /\ plan_mode # "diagnostics"
        /\ \E llm \in PlannerOutcomes : Return("planner", planner_agent_node(St, llm))
  /\ UNCHANGED m

\* A loop exit that comes one attempt late.
attempts_exhausted_late(attempt) == attempt = MAX_SQL_ATTEMPTS + 1

\* if attempt == MAX_SQL_ATTEMPTS: break
attempts_exhausted(attempt) == attempt = MAX_SQL_ATTEMPTS

\* Initial SQL generation call, its outcome a failure or one of texts.
MetricsGenerateFrom(texts) ==
  /\ pc = "metrics_agent"
  /\ m.phase = "idle"
  /\ \E out \in {"raise"} \cup texts :
       IF out = "raise"
       THEN Raise("metrics_agent") /\ m' = MIdle
       ELSE /\ m' = [MIdle EXCEPT !.phase = "attempt", !.sql = out, !.attempt = 1,
                                  !.gen_calls = 1]
            /\ UNCHANGED <<variant, pc, obs, trace, routerLog, turn, start, caller>>

MetricsGenerate == MetricsGenerateFrom(SqlTexts)

\* One pass of the loop body: normalise, validate, execute when valid.
MetricsAttempt ==
  /\ pc = "metrics_agent"
  /\ m.phase = "attempt"
  /\ \E sql \in {_normalize_sql(m.sql)} : \E validation_errors \in {_validate_sql(sql)} :
       \E out \in IF validation_errors = <<>> THEN ExecutionOutcomes ELSE {Raised} :
          LET executes == validation_errors = <<>>
              m1 == [m EXCEPT !.sql = sql,
                              !.exec_calls = IF executes THEN @ + 1 ELSE @,
                              !.executed = IF executes THEN Append(@, sql) ELSE @,
                              !.ran = IF executes THEN Append(@, executed_sql(variant, sql)) ELSE @]
              last_error == IF executes THEN "Database error"
                            ELSE "Validation errors: " \o JoinIssues(validation_errors)
          IN IF executes /\ out # Raised
             THEN /\ m' = [m1 EXCEPT !.phase = "summarize", !.result = out]
                  /\ UNCHANGED <<variant, pc, obs, trace, routerLog, turn, start, caller>>
             ELSE IF attempts_exhausted(m.attempt)
             THEN /\ m' = MIdle
                  /\ Return("metrics_agent", metrics_error_update(St, sql, last_error))
             ELSE /\ m' = [m1 EXCEPT !.phase = "repair", !.last_error = last_error]
                  /\ UNCHANGED <<variant, pc, obs, trace, routerLog, turn, start, caller>>

\* Repair call with the failed SQL and the last error.
MetricsRepairFrom(texts) ==
  /\ pc = "metrics_agent"
  /\ m.phase = "repair"
  /\ \E out \in {"raise"} \cup texts :
       IF out = "raise"
       THEN Raise("metrics_agent") /\ m' = MIdle
       ELSE /\ m' = [m EXCEPT !.phase = "attempt", !.sql = out, !.attempt = @ + 1,
                              !.gen_calls = @ + 1]
            /\ UNCHANGED <<variant, pc, obs, trace, routerLog, turn, start, caller>>

MetricsRepair == MetricsRepairFrom(SqlTexts)

\* Summary call and the success delta.
MetricsSummarize ==
  /\ pc = "metrics_agent"
  /\ m.phase = "summarize"
  /\ m' = MIdle
  /\ \E out \in SummaryOutcomes :
       IF out = "raise" THEN Raise("metrics_agent")
       ELSE Return("metrics_agent", metrics_success_update(St, m.sql, m.result))

Chart ==
  /\ pc = "chart_agent"
  /\ UNCHANGED m
  /\ IF last_rows = <<>>
     THEN Return("chart_agent", chart_no_data_update(St))
     ELSE \E out \in ChartOutcomes :
            IF out = "raise" THEN Raise("chart_agent")
            ELSE Return("chart_agent", chart_spec_update(St, out))

\* A summary agent that asks for the narrative whatever the first result holds.
DiagnosticsSummary_always_narrates ==
  /\ pc = "diagnostics_summary_agent"
  /\ UNCHANGED m
  /\ \E out \in SummaryOutcomes :
       IF out = "raise" THEN Raise("diagnostics_summary_agent")
       ELSE Return("diagnostics_summary_agent",
                   diagnostics_summary_update(St, "diagnostics: narrative"))

DiagnosticsSummary ==
  /\ pc = "diagnostics_summary_agent"
  /\ UNCHANGED m
  /\ IF first_rows(St) = <<>>
     THEN Return("diagnostics_summary_agent",
                 diagnostics_summary_update(St, "diagnostics: no data to compare"))
     ELSE \E out \in SummaryOutcomes :
            IF out = "raise" THEN Raise("diagnostics_summary_agent")
            ELSE Return("diagnostics_summary_agent",
                        diagnostics_summary_update(St, "diagnostics: narrative"))

Clarifier ==
  /\ pc = "clarifier_agent"
  /\ UNCHANGED m
  /\ Return("clarifier_agent", clarifier_agent_node(St))

Refusal ==
  /\ pc = "refusal_agent"
  /\ UNCHANGED m
  /\ Return("refusal_agent", refusal_agent_node(St))

Next ==
  \/ Router
  \/ RouterClarifier
  \/ Planner
  \/ MetricsGenerate
  \/ MetricsAttempt
  \/ MetricsRepair
  \/ MetricsSummarize
  \/ Chart
  \/ DiagnosticsSummary
  \/ Clarifier
  \/ Refusal
  \/ NewTurn

Spec == Init /\ [][Next]_vars

\* The Metrics Agent's step on a plain data request, with the wider set of
\* generated statements: the router's passes and the metrics step of one turn.
MetricsGenerateWide == MetricsGenerateFrom(SqlTextsWide)
MetricsRepairWide == MetricsRepairFrom(SqlTextsWide)

InitSql ==
  /\ Init
  /\ \E text \in {"list the slowest runs in agent_runs", "hello there"} :
       St = run_obs_agent(text, Absent)

NextSql ==
  \/ Router
  \/ RouterClarifier
  \/ MetricsGenerateWide
  \/ MetricsAttempt
  \/ MetricsRepairWide
  \/ MetricsSummarize

SpecSql == InitSql /\ [][NextSql]_vars

(***************************************************************************)
(* Properties                                                              *)
(***************************************************************************)
\* The latest human message of the current state and of the turn's first state.
Text == _extract_last_user_message(St)
StartText == _extract_last_user_message(start)

\* The messages the current turn has added after the user's.
NewMessages == SubSeq(messages, Len(start.messages) + 1, Len(messages))

\* The nodes that have executed in the current turn, the router excepted.
AgentsRun == {trace[k] : k \in 1..Len(trace)} \ {"router"}

\* C1: one turn of the router/agent loop reaches the terminal node whatever the
\* capability outcomes are; in particular no turn stops anywhere else, so the
\* loop is never left by an exception before the terminal node.
C1_TurnStopsOnlyAtTerminal == pc # "raised"

\* C2: when the router runs with has_error false, a non-empty plan and the cursor
\* inside the plan, it hands the turn to the agent named by the step at the
\* cursor, and the node the graph executes next is that agent, or the metrics
\* agent when the name is not an executable agent; the pass takes the plan rule:
\* it classifies nothing, calls no capability and emits no message (so no
\* refusal either).  The next node is stated for the generation whose graph is
\* in the repository.
C2_PlanRule ==
  [][(pc = "router" /\ ~has_error /\ plan # <<>> /\ plan_step_index < Len(plan))
     => /\ active_agent' = plan[plan_step_index + 1].agent
        /\ variant = "backend" =>
             pc' = IF plan[plan_step_index + 1].agent \in valid_agents
                   THEN plan[plan_step_index + 1].agent
                   ELSE "metrics_agent"
        /\ routerLog'.rule = "plan"
        /\ routerLog'.calls = <<>>
        /\ messages' = messages
        /\ plan' = plan
        /\ plan_step_index' = plan_step_index]_vars

\* A pass that dispatched the second step of a plan while the latest message is
\* one the classification would refuse.
C2_Witness ==
  /\ variant = "backend"
  /\ routerLog.rule = "plan"
  /\ plan_step_index = 1
  /\ pc = "chart_agent"
  /\ plan[1].agent = "metrics_agent"
  /\ _is_disallowed_request(Text)

\* A plan step naming an agent that cannot be executed goes to the metrics agent.
C2_WitnessDefault ==
  /\ routerLog.rule = "plan"
  /\ variant = "backend"
  /\ plan[plan_step_index + 1].agent = "refusal_agent"
  /\ pc = "metrics_agent"

\* C3: when the router runs with a non-empty plan and the cursor at or past its
\* end, or with an empty plan and a cursor above 0, the turn ends on that pass:
\* the router emits no message, calls no capability and names the terminal
\* identifier, and the terminal node is next, so no agent executes afterwards
\* (the next node is stated for the generation whose graph is in the repository).
C3_ExhaustedOrDoneTerminates ==
  [][(/\ pc = "router"
      /\ \/ plan # <<>> /\ plan_step_index >= Len(plan)
         \/ plan = <<>> /\ plan_step_index > 0)
     => /\ messages' = messages
        /\ routerLog'.calls = <<>>
        /\ active_agent' = "complete"
        /\ variant = "backend" => pc' = "END"]_vars

\* The turn of a single non-plan agent step: router, metrics agent (cursor 0 to
\* 1), router, terminal.
C3_Witness ==
  /\ variant = "backend"
  /\ pc = "END"
  /\ trace = <<"router", "metrics_agent", "router">>
  /\ routerLog.rule = "done"
  /\ start.plan = <<>>
  /\ start.plan_step_index = 0

\* A pass that found the plan exhausted.
C3_WitnessExhausted ==
  /\ pc = "END"
  /\ routerLog.rule = "exhausted"
  /\ Len(trace) > 1

\* C4: if has_error is true when the router runs, then whatever the plan, the
\* cursor and the user message are, the router emits no message, sets
\* active_agent to the terminal identifier, clears the plan, and the turn ends
\* with no further agent execution.
C4_ErrorTerminates ==
  [][(pc = "router" /\ has_error)
     => /\ messages' = messages
        /\ active_agent' = "complete"
        /\ plan' = <<>>
        /\ pc' = "END"
        /\ routerLog'.rule = "error"]_vars

\* The flag ended a turn whose plan still had a step to run.
C4_Witness ==
  /\ routerLog.rule = "error"
  /\ pc = "END"
  /\ start.has_error
  /\ start.plan # <<>>
  /\ start.plan_step_index < Len(start.plan)
  /\ plan = <<>>

\* The refusal rules of the running generation: a disallowed keyword, or no
\* analytics keyword at all.
RefusalRuleApplies(text) ==
  \/ _is_disallowed_request(text)
  \/ IF variant = "backend" THEN ~_is_analytics_request(text)
     ELSE ~_is_analytics_request_clarifier(text)

\* The fixed refusal text of the running generation.
RefusalText == IF variant = "backend" THEN REFUSAL_MESSAGE ELSE REFUSAL_MESSAGE_KO

DataAgents == {"planner", "metrics_agent", "chart_agent", "diagnostics_summary_agent"}

\* What C5 promises of a turn, from its first state on: none of the planner,
\* metrics, chart and diagnostics-summary agents is executed or about to be, and
\* the turn ends with the refusal text as its only new message and an empty plan.
RefusedTurn ==
  /\ pc \notin DataAgents
  /\ AgentsRun \cap DataAgents = {}
  /\ pc = "END" => NewMessages = <<AIMessage(RefusalText)>> /\ plan = <<>>

\* C5: when a turn starts with no plan and the cursor at 0 (and no error flag),
\* and the latest human message contains a disallowed keyword or contains no
\* analytics keyword at all, the turn ends with exactly one new agent message,
\* the fixed refusal text, the plan is empty at the end, and the planner,
\* metrics, chart and diagnostics-summary agents never execute in that turn,
\* whatever else the message contains and whether or not a clarification is
\* pending.
C5_RefusalRule ==
  (/\ start.plan = <<>>
   /\ start.plan_step_index = 0
   /\ ~start.has_error
   /\ StartText # None
   /\ RefusalRuleApplies(StartText))
  => RefusedTurn

\* The same for the messages that hold at least one character.
C5_RefusalRuleNonEmpty ==
  (/\ start.plan = <<>>
   /\ start.plan_step_index = 0
   /\ ~start.has_error
   /\ StartText \notin {None, ""}
   /\ RefusalRuleApplies(StartText))
  => RefusedTurn

\* The backend router classifies the latest message and does not refuse it:
\* no error flag, no plan, cursor 0, a message of at least one character that
\* passes both refusal rules.
BackendClassifies ==
  /\ pc = "router"
  /\ variant = "backend"
  /\ ~has_error
  /\ plan = <<>>
  /\ plan_step_index = 0
  /\ Text \notin {None, ""}
  /\ ~RefusalRuleApplies(Text)

\* A cause signal word together with a metric signal word.
HasDiagnosticsSignals(text) ==
  AnyInLower(_CAUSE_SIGNALS, text) /\ AnyInLower(_METRIC_SIGNALS, text)

\* C6: when the classification reaches the chart rule (no plan, cursor 0, message
\* not refused, no diagnostics intent) and the message contains a chart or
\* visualization keyword, the router dispatches to the chart agent if last_rows
\* is non-empty and to the planner if it is empty, and makes no classification
\* call.
C6_ChartRule ==
  [][(/\ BackendClassifies
      /\ ~HasDiagnosticsSignals(Text)
      /\ AnyInLower(chart_keywords, Text))
     => /\ active_agent' = IF last_rows # <<>> THEN "chart_agent" ELSE "planner"
        /\ pc' = active_agent'
        /\ routerLog'.calls = <<>>
        /\ messages' = messages
        /\ last_rows' = last_rows]_vars

\* A chart request of a second turn, with the rows the first turn left.
C6_Witness ==
  /\ variant = "backend"
  /\ turn = 2
  /\ trace = <<"router">>
  /\ routerLog.rule = "classify"
  /\ AnyInLower(chart_keywords, Text)
  /\ last_rows # <<>>
  /\ pc = "chart_agent"

\* A chart request without rows goes to the planner.
C6_WitnessPlanner ==
  /\ variant = "backend"
  /\ trace = <<"router">>
  /\ routerLog.rule = "classify"
  /\ AnyInLower(chart_keywords, Text)
  /\ plan_mode = "default"
  /\ last_rows = <<>>
  /\ pc = "planner"

\* C7: when the latest message is not refused and contains both a cause signal
\* word and a metric signal word, the router sets plan_mode to diagnostics,
\* replaces diagnostics_context by the inferred target metric, one window for
\* baseline and recent, and empty results, and dispatches to the planner; the
\* rule precedes the chart rule and the model-based routing (no call is made),
\* whatever last_rows holds.
C7_DiagnosticsRule ==
  [][(BackendClassifies /\ HasDiagnosticsSignals(Text))
     => /\ plan_mode' = "diagnostics"
        /\ DOMAIN diagnostics_context' =
             {"target_metric", "baseline_window_hours", "recent_window_hours", "results"}
        /\ diagnostics_context'.target_metric = infer_target_metric(Text)
        /\ diagnostics_context'.baseline_window_hours = diagnostics_context'.recent_window_hours
        /\ diagnostics_context'.results = <<>>
        /\ active_agent' = "planner"
        /\ pc' = "planner"
        /\ routerLog'.calls = <<>>
        /\ messages' = messages
        /\ last_rows' = last_rows]_vars

\* A diagnostics request that also asks for a plot, with rows at hand and the
\* results of an earlier diagnostics turn in the state.
C7_Witness ==
  /\ variant = "backend"
  /\ trace = <<"router">>
  /\ pc = "planner"
  /\ plan_mode = "diagnostics"
  /\ AnyInLower(chart_keywords, Text)
  /\ last_rows # <<>>
  /\ start.diagnostics_context.results # <<>>
  /\ diagnostics_context.results = <<>>
  /\ diagnostics_context.target_metric = "latency"

\* The window a message states: the number in front of the hour unit, 24 times
\* the number in front of the day unit, the default when it states neither.
StatedWindow(text) ==
  IF extract_window_hours_from_text(text) = NoneInt
  THEN DEFAULT_DIAGNOSTIC_WINDOW_HOURS
  ELSE extract_window_hours_from_text(text)

\* C8: on entering diagnostics mode the window is the value the message states
\* (N for "N hours", 24*N for "N days") for every non-negative integer N, the
\* default of 24 only when the message states no window, and
\* recent_window_hours equals baseline_window_hours.
C8_WindowIsStatedValue ==
  [][(BackendClassifies /\ HasDiagnosticsSignals(Text))
     => /\ diagnostics_context'.baseline_window_hours = StatedWindow(Text)
        /\ diagnostics_context'.recent_window_hours = StatedWindow(Text)]_vars

\* The same for the messages that state no window of 0.
C8_WindowIsStatedValueAboveZero ==
  [][(BackendClassifies /\ HasDiagnosticsSignals(Text) /\ StatedWindow(Text) # 0)
     => /\ diagnostics_context'.baseline_window_hours = StatedWindow(Text)
        /\ diagnostics_context'.recent_window_hours = StatedWindow(Text)]_vars

\* Windows entered from "in the last 4 hours" and from "over 2 days".
C8_WitnessHours ==
  /\ variant = "backend"
  /\ trace = <<"router">>
  /\ Text = "why did latency spike in the last 4 hours"
  /\ diagnostics_context.baseline_window_hours = 4
  /\ diagnostics_context.recent_window_hours = 4

C8_WitnessDays ==
  /\ variant = "backend"
  /\ trace = <<"router">>
  /\ Text = "why did token cost increase over 2 days in call_model"
  /\ diagnostics_context.baseline_window_hours = 48

\* C9: when the classification reaches the model-based routing call and the call
\* raises, the router dispatches to the metrics agent, which the graph executes
\* next (stated for the generation whose graph is in the repository); the
\* failure sets no error flag and emits no message.
C9_RoutingFailureDefault ==
  [][(pc = "router" /\ routerLog'.rule = "classify" /\ routerLog'.llm = "raise")
     => /\ active_agent' = "metrics_agent"
        /\ variant = "backend" => pc' = "metrics_agent"
        /\ messages' = messages
        /\ ~has_error'
        /\ plan' = plan]_vars

\* A turn whose routing call failed and which went on with the metrics agent:
\* the agent has answered and the router is about to end the turn.
C9_Witness ==
  /\ variant = "backend"
  /\ routerLog.rule = "classify"
  /\ routerLog.llm = "raise"
  /\ trace = <<"router", "metrics_agent">>
  /\ pc = "router"
  /\ ~has_error
  /\ plan_step_index = 1
  /\ last_rows # <<>>
  /\ NewMessages # <<>>

\* The routing call failed in the clarifier generation.
C9_WitnessClarifier ==
  /\ variant = "clarifier"
  /\ routerLog.llm = "raise"
  /\ trace = <<"router">>
  /\ active_agent = "metrics_agent"

\* The clarifier-generation router reaches the pending-clarification rule with
\* a table name as the missing detail: no plan, cursor 0, a message that is not
\* refused.
PendingTableRule ==
  /\ pc = "router"
  /\ variant = "clarifier"
  /\ plan = <<>>
  /\ plan_step_index = 0
  /\ Text \notin {None, ""}
  /\ ~RefusalRuleApplies(Text)
  /\ clarification # Absent
  /\ Get(clarification, "status", None) = "pending"
  /\ Get(clarification, "required_detail", None) = "table_name"

\* The router pass classified text q: diagnostics rule, then chart rule, then
\* the model-based routing call.
ClassifiedOn(q) ==
  IF HasDiagnosticsSignals(q)
  THEN /\ active_agent' = "planner"
       /\ plan_mode' = "diagnostics"
       /\ diagnostics_context'.target_metric = infer_target_metric(q)
       /\ routerLog'.calls = <<>>
  ELSE IF AnyInLower(chart_keywords_clarifier, q)
  THEN /\ active_agent' = IF last_rows # <<>> THEN "chart_agent" ELSE "planner"
       /\ plan_mode' = plan_mode
       /\ routerLog'.calls = <<>>
  ELSE /\ routerLog'.calls = <<"routing">>
       /\ active_agent' = IF routerLog'.llm = "raise" THEN "metrics_agent" ELSE routerLog'.llm
       /\ plan_mode' = plan_mode

\* C10: when the router reaches the pending-clarification rule (the message is
\* not refused) with required_detail = table_name: if the message names no
\* table, the router dispatches the clarifier with the same question and the
\* status stays pending; if it names one, the status becomes resolved,
\* resolved_query is the original request followed by the answer, and the
\* classification (diagnostics rule, chart rule, model routing) goes on with the
\* resolved query, not with the raw answer.
C10_PendingTableClarification ==
  [][PendingTableRule
     => /\ messages' = messages
        /\ IF ~AnyInLower(TABLE_NAMES, Text)
           THEN /\ active_agent' = "clarifier_agent"
                /\ clarification'.status = "pending"
                /\ clarification'.question = clarification.question
                /\ clarification'.original_user_message = clarification.original_user_message
                /\ clarification'.required_detail = "table_name"
                /\ routerLog'.calls = <<>>
           ELSE /\ clarification'.status = "resolved"
                /\ clarification'.resolved_query =
                     clarification.original_user_message \o "\nClarified details: " \o Text
                /\ ClassifiedOn(clarification'.resolved_query)]_vars

\* The answer "agent_runs" to the table question of a diagnostics request: the
\* resolved query enters diagnostics mode, which the raw answer would not.
C10_Witness ==
  /\ variant = "clarifier"
  /\ trace = <<"router">>
  /\ Text = "agent_runs"
  /\ start.clarification = PendingTable("why did latency spike in the last 4 hours")
  /\ clarification.status = "resolved"
  /\ clarification.resolved_query =
       "why did latency spike in the last 4 hours\nClarified details: agent_runs"
  /\ active_agent = "planner"
  /\ plan_mode = "diagnostics"
  /\ diagnostics_context.baseline_window_hours = 4

\* An answer that names no table: the clarifier is dispatched with the question
\* unchanged.
C10_WitnessReprompt ==
  /\ variant = "clarifier"
  /\ trace = <<"router">>
  /\ start.clarification = PendingTable("show token usage")
  /\ Text = "why did latency spike in the last 4 hours"
  /\ active_agent = "clarifier_agent"
  /\ clarification = start.clarification

\* C11: if a turn ends with clarification.status = pending, the next turn
\* started through run_obs_agent with that final state as previous state begins
\* with the same clarification record (still pending, same question and
\* original_user_message), so that the router's first pass can resolve it.
C11_PendingSurvivesTurnEntry ==
  [][(/\ pc = "END"
      /\ clarification # Absent
      /\ Get(clarification, "status", None) = "pending"
      /\ turn' = turn + 1)
     => /\ clarification' # Absent
        /\ Get(clarification', "status", None) = "pending"
        /\ clarification'.question = clarification.question
        /\ clarification'.original_user_message = clarification.original_user_message]_vars

\* The planner's narrative texts.
PlanNarratives ==
  {"planner: fallback plan after error", "planner: no steps returned", "planner: plan"}

\* C12: every execution of the Planner on a request planned by the planning
\* capability leaves a non-empty plan and plan_step_index = 0, appends exactly
\* one message (the plan narrative, an AI message) to the messages it found, and
\* leaves last_rows unchanged, whether the planning call succeeded, returned no
\* steps or failed.
C12_PlannerPostcondition ==
  [][(pc = "planner" /\ plan_mode # "diagnostics")
     => /\ plan' # <<>>
        /\ plan_step_index' = 0
        /\ Len(messages') = Len(messages) + 1
        /\ SubSeq(messages', 1, Len(messages)) = messages
        /\ messages'[Len(messages')].type = "ai"
        /\ messages'[Len(messages')].content \in PlanNarratives
        /\ last_rows' = last_rows
        /\ active_agent' = "planner"]_vars

\* The planner has just returned after a failed planning call, with rows of an
\* earlier turn in the state.
C12_WitnessFailed ==
  /\ pc = "router"
  /\ trace # <<>>
  /\ trace[Len(trace)] = "planner"
  /\ messages[Len(messages)].content = "planner: fallback plan after error"
  /\ last_rows # <<>>
  /\ plan # <<>>
  /\ plan_step_index = 0

\* The planner has just returned after a planning call that gave no steps.
C12_WitnessNoSteps ==
  /\ pc = "router"
  /\ trace # <<>>
  /\ trace[Len(trace)] = "planner"
  /\ messages[Len(messages)].content = "planner: no steps returned"
  /\ plan # <<>>
  /\ plan_step_index = 0

\* The most recent human message holds one of the planner's visualization keywords.
AsksForVisualization ==
  /\ Text # None
  /\ \E k \in 1..Len(planner_chart_keywords) : Contains(Lower(Text), planner_chart_keywords[k])

\* The step of the Planner now taken stores the fallback plan.
PlannerFallsBack ==
  /\ pc = "planner"
  /\ plan_mode # "diagnostics"
  /\ messages'[Len(messages')].content \in
       {"planner: fallback plan after error", "planner: no steps returned"}

\* C13: when the planning capability fails or returns no steps, the plan stored
\* is the fallback: step 1 is a metrics_agent step with step_number 1; a step 2
\* (chart_agent, step_number 2) is present exactly when the most recent human
\* message holds a visualization keyword; there is no other step.
C13_FallbackPlan ==
  [][PlannerFallsBack
     => /\ Len(plan') = (IF AsksForVisualization THEN 2 ELSE 1)
        /\ plan'[1].agent = "metrics_agent"
        /\ plan'[1].step_number = 1
        /\ Len(plan') = 2 => /\ plan'[2].agent = "chart_agent"
                              /\ plan'[2].step_number = 2]_vars

\* The fallback was stored for a request that asks for a chart: two steps.
C13_WitnessChart ==
  /\ pc = "router"
  /\ trace # <<>>
  /\ trace[Len(trace)] = "planner"
  /\ messages[Len(messages)].content = "planner: fallback plan after error"
  /\ AsksForVisualization
  /\ Len(plan) = 2

\* The fallback was stored for a request without a visualization keyword: one step.
C13_WitnessNoChart ==
  /\ pc = "router"
  /\ trace # <<>>
  /\ trace[Len(trace)] = "planner"
  /\ messages[Len(messages)].content = "planner: no steps returned"
  /\ ~AsksForVisualization
  /\ Len(plan) = 1

\* The five fields of a PlanStep.
PlanStepFields == {"step_number", "agent", "objective", "input_context", "success_criteria"}

\* C14: every plan the Planner stores, from the planning capability or from the
\* fallback, has steps that each carry the five PlanStep fields, are numbered
\* 1, 2, ..., len(plan) in list order, and name a known agent.
C14_StoredPlanWellFormed ==
  [][(pc = "planner" /\ plan_mode # "diagnostics")
     => \A i \in 1..Len(plan') :
          /\ PlanStepFields \subseteq DOMAIN plan'[i]
          /\ plan'[i].step_number = i
          /\ plan'[i].agent \in AgentName]_vars

\* The position in the validate/execute/repair loop: it grows with every pass.
LoopPosition(mm) == 2 * mm.attempt + (IF mm.phase = "repair" THEN 1 ELSE 0)

\* C15: in one Metrics Agent step the generation capability is invoked at most
\* 3 times (the initial request and at most 2 repairs), execution is attempted
\* at most 3 times, no repair is requested after the third failed attempt, and
\* the loop ends in success or exhaustion: every pass either leaves the loop,
\* with a result or with the error message after attempt 3, or moves the loop
\* forward, and the loop position is bounded.
C15_RepairLoopBounded ==
  [][(pc = "metrics_agent" /\ m.phase \in {"attempt", "repair"})
     => /\ m.gen_calls = m.attempt
        /\ m.attempt \in 1..3
        /\ m.exec_calls <= m.attempt
        /\ Len(m.executed) = m.exec_calls
        /\ m.phase = "repair" => m.attempt < 3
        /\ IF m.phase = "repair"
           THEN \/ pc' = "raised"
                \/ /\ pc' = "metrics_agent"
                   /\ m'.phase = "attempt"
                   /\ m'.gen_calls = m.gen_calls + 1
                   /\ m'.exec_calls = m.exec_calls
           ELSE \/ /\ pc' = "metrics_agent"
                   /\ m'.phase = "summarize"
                   /\ m'.exec_calls = m.exec_calls + 1
                   /\ m'.gen_calls = m.gen_calls
                \/ /\ pc' = "metrics_agent"
                   /\ m'.phase = "repair"
                   /\ m.attempt < 3
                   /\ m'.gen_calls = m.gen_calls
                   /\ m'.exec_calls <= m.exec_calls + 1
                \/ /\ pc' = "router"
                   /\ m.attempt = 3
                   /\ Len(messages') > Len(messages)
        /\ (pc' = "metrics_agent" /\ m'.phase # "summarize")
           => LoopPosition(m') > LoopPosition(m)]_vars

\* The third attempt is about to be made after two repairs and two executions
\* that failed.
C15_WitnessThirdAttempt ==
  /\ pc = "metrics_agent"
  /\ m.phase = "attempt"
  /\ m.attempt = 3
  /\ m.gen_calls = 3
  /\ m.exec_calls = 2

\* The third execution succeeded: three generation calls, three executions.
C15_WitnessThirdSucceeds ==
  /\ pc = "metrics_agent"
  /\ m.phase = "summarize"
  /\ m.gen_calls = 3
  /\ m.exec_calls = 3

\* The five static checks, each decided on the lowered statement: a FROM or JOIN
\* of one of the four tables, no VALUES (, no UNION ALL SELECT of a quoted
\* literal, none of the six writing keywords, no STRING_AGG.
PassesStaticChecks(sql) ==
  LET lowered == Lower(sql)
  IN /\ \E table \in {"agent_runs", "call_model", "call_tool", "call_chain"} :
          ReferencesTable(lowered, table)
     /\ ~HasValuesClause(lowered)
     /\ ~HasLiteralUnion(lowered)
     /\ \A word \in {"insert", "update", "delete", "drop", "create", "replace"} :
          ~HasWord(lowered, word)
     /\ ~HasWord(lowered, "string_agg")

\* The attempt now made hands its statement to the execution capability: the
\* execution is counted, or the step ends on the database's error.
ExecutesNow ==
  \/ pc' = "metrics_agent" /\ m'.exec_calls = m.exec_calls + 1
  \/ pc' = "router" /\ Contains(messages'[Len(messages')].content, "Database error")

C16_WitnessRejected ==
  /\ pc = "metrics_agent"
  /\ m.phase = "repair"
  /\ m.attempt = 2
  /\ m.sql = "DELETE FROM agent_runs"
  /\ m.exec_calls = 0

\* The pass of the loop now made is the third and it fails: the step returns.
ExhaustedStep ==
  /\ pc = "metrics_agent"
  /\ m.phase = "attempt"
  /\ m.attempt = 3
  /\ pc' = "router"

\* The Metrics Agent has just returned from a step whose three attempts failed.
AfterExhaustion ==
  /\ pc = "router"
  /\ trace # <<>>
  /\ trace[Len(trace)] = "metrics_agent"
  /\ StartsWithAt(messages[Len(messages)].content, 1, "sql rejected: ")

\* C17: when all 3 attempts of a step fail the step returns a delta: its last
\* message is the error message citing the last SQL attempted and the last
\* error, plan_step_index grows by exactly 1, last_rows and
\* diagnostics_context.results keep their values and has_error is not set; the
\* router then goes on with the plan: the step after the failed one is
\* dispatched, or the turn ends when there is none; the failed step is not
\* run again (the next node is stated for the generation whose graph is in the
\* repository).
C17_ExhaustionIsNotFatal ==
  [][/\ ExhaustedStep
        => LET sql == _normalize_sql(m.sql)
               said == messages'[Len(messages')]
           IN /\ Len(messages') > Len(messages)
              /\ SubSeq(messages', 1, Len(messages)) = messages
              /\ said.type = "ai"
              /\ Contains(said.content, sql)
              /\ \/ Contains(said.content, "Database error")
                 \/ Contains(said.content, "Validation errors: ")
              /\ plan_step_index' = plan_step_index + 1
              /\ plan' = plan
              /\ last_rows' = last_rows
              /\ diagnostics_context'.results = diagnostics_context.results
              /\ has_error' = has_error
              /\ ~has_error'
     /\ AfterExhaustion
        => /\ messages' = messages
           /\ IF plan_step_index < Len(plan)
              THEN /\ active_agent' = plan[plan_step_index + 1].agent
                   /\ plan_step_index' = plan_step_index
                   /\ variant = "backend" =>
                        pc' = IF plan[plan_step_index + 1].agent \in valid_agents
                              THEN plan[plan_step_index + 1].agent
                              ELSE "metrics_agent"
              ELSE /\ active_agent' = "complete"
                   /\ variant = "backend" => pc' = "END"]_vars

\* After the metrics step of a two-step plan failed, the chart step was dispatched.
C17_WitnessNextStep ==
  /\ variant = "backend"
  /\ pc = "chart_agent"
  /\ plan_step_index = 1
  /\ Len(plan) = 2
  /\ Len(trace) >= 2
  /\ trace[Len(trace) - 1] = "metrics_agent"
  /\ StartsWithAt(messages[Len(messages)].content, 1, "sql rejected: ")

\* A step without a plan failed on a statement that was never executed; the
\* rows of the earlier turn are still in last_rows.
C17_WitnessValidation ==
  /\ AfterExhaustion
  /\ plan = <<>>
  /\ plan_step_index = 1
  /\ last_rows # <<>>
  /\ Contains(messages[Len(messages)].content, "Validation errors: ")

\* The summary call of a successful step returns: the step returns its delta.
SuccessStep ==
  /\ pc = "metrics_agent"
  /\ m.phase = "summarize"
  /\ pc' = "router"

\* The step at the cursor is the overall_change step of a diagnostics plan and
\* the statement executed gave no rows.
ShortCircuit ==
  /\ plan_mode = "diagnostics"
  /\ plan # <<>>
  /\ plan_step_index < Len(plan)
  /\ "name" \in DOMAIN plan[plan_step_index + 1]
  /\ plan[plan_step_index + 1].name = "overall_change"
  /\ m.result.rows = <<>>

\* C18: on success last_rows becomes the result, one field-to-value mapping per
\* row in the result's order, whatever last_rows held; exactly two messages are
\* appended, the SQL explanation and then the summary; and outside the
\* diagnostics short-circuit plan_step_index grows by exactly 1.
C18_SuccessDelta ==
  [][SuccessStep
     => LET columns == m.result.columns
            rows == m.result.rows
        IN /\ Len(last_rows') = Len(rows)
           /\ \A i \in 1..Len(rows) :
                /\ DOMAIN last_rows'[i] = {columns[j] : j \in 1..Len(columns)}
                /\ \A j \in 1..Len(columns) : last_rows'[i][columns[j]] = rows[i][j]
           /\ Len(messages') = Len(messages) + 2
           /\ SubSeq(messages', 1, Len(messages)) = messages
           /\ messages'[Len(messages) + 1] = [type |-> "ai", content |-> "sql: " \o m.sql]
           /\ messages'[Len(messages) + 2] = [type |-> "ai", content |-> "summary"]
           /\ ~ShortCircuit => plan_step_index' = plan_step_index + 1]_vars

\* A step that found rows of an earlier turn has stored a result of two rows,
\* in the result's order.
C18_WitnessTwoRows ==
  /\ pc = "router"
  /\ trace # <<>>
  /\ trace[Len(trace)] = "metrics_agent"
  /\ messages[Len(messages)].content = "summary"
  /\ start.last_rows # <<>>
  /\ last_rows = << [name |-> "a", value |-> 1], [name |-> "b", value |-> 2] >>

\* A step that found rows of an earlier turn has stored an empty result.
C18_WitnessOverwrittenByEmpty ==
  /\ pc = "router"
  /\ trace # <<>>
  /\ trace[Len(trace)] = "metrics_agent"
  /\ messages[Len(messages)].content = "summary"
  /\ start.last_rows # <<>>
  /\ last_rows = <<>>

\* diagnostics_context.results, empty when the key is not set.
ResultsOf(ctx) == Get(ctx, "results", <<>>)

\* The position in the plan of the step whose name is n, 0 when there is none.
PlanPosition(n) ==
  LET hits == {i \in 1..Len(plan) : "name" \in DOMAIN plan[i] /\ plan[i].name = n}
  IN IF hits = {} THEN 0 ELSE CHOOSE i \in hits : \A j \in hits : i <= j

\* The number of Metrics Agent steps of the current turn that succeeded, each
\* of which ended on its summary message.
SucceededSteps ==
  Cardinality({k \in 1..Len(NewMessages) : NewMessages[k].content = "summary"})

C19_WitnessSummaryAfterFailure ==
  /\ plan_mode = "diagnostics"
  /\ start.plan_mode = "default"
  /\ SucceededSteps = 2
  /\ pc = "diagnostics_summary_agent"
  /\ Len(ResultsOf(diagnostics_context)) = 2
  /\ ResultsOf(diagnostics_context)[1].name = "overall_change"
  /\ ResultsOf(diagnostics_context)[2].name = "by_agent"

\* The number of times the node has executed in the current turn.
TimesRun(tr, node) == Cardinality({k \in 1..Len(tr) : tr[k] = node})

\* The turn entered diagnostics mode and the plan's overall_change step has
\* stored an empty result.
ShortCircuited(mode, ctx) ==
  /\ mode = "diagnostics"
  /\ start.plan_mode = "default"
  /\ ResultsOf(ctx) # <<>>
  /\ ResultsOf(ctx)[1].name = "overall_change"
  /\ ResultsOf(ctx)[1].rows = <<>>

\* C20: in a diagnostics plan, when the first (overall_change) step succeeds
\* with zero rows the cursor is set to the last plan index, len(plan) - 1; the
\* agent dispatched next is the plan's last step, the summary step; and the
\* steps between (by_tool, by_agent) are not dispatched in that turn: the
\* Metrics Agent has run once and no further result is stored.
C20_DiagnosticsShortCircuit ==
  [][/\ (SuccessStep /\ ShortCircuit)
        => /\ plan_step_index' = Len(plan) - 1
           /\ plan' = plan
     /\ (/\ pc = "router"
         /\ ShortCircuited(plan_mode, diagnostics_context)
         /\ trace[Len(trace)] = "metrics_agent")
        => /\ active_agent' = plan[Len(plan)].agent
           /\ plan[Len(plan)].name = "summarize"
           /\ active_agent' = "diagnostics_summary_agent"
           /\ variant = "backend" => pc' = "diagnostics_summary_agent"
     /\ ShortCircuited(plan_mode', diagnostics_context')
        => /\ TimesRun(trace', "metrics_agent") = 1
           /\ Len(ResultsOf(diagnostics_context')) = 1
           /\ pc' # "metrics_agent"
           /\ plan_step_index' >= Len(plan') - 1]_vars

\* The summary step was dispatched right after an overall_change step without rows.
C20_Witness ==
  /\ variant = "backend"
  /\ pc = "diagnostics_summary_agent"
  /\ trace = <<"router", "planner", "router", "metrics_agent", "router">>
  /\ plan_step_index = 3
  /\ Len(plan) = 4
  /\ ShortCircuited(plan_mode, diagnostics_context)

\* The Diagnostics-Summary Agent is about to run on no evidence: results is
\* empty or its first entry has no rows.
SummaryWithoutEvidence ==
  /\ pc = "diagnostics_summary_agent"
  /\ \/ ResultsOf(diagnostics_context) = <<>>
     \/ ResultsOf(diagnostics_context)[1].rows = <<>>

\* C21: when the Diagnostics-Summary Agent runs and results is empty or its
\* first entry has zero rows, the agent returns normally: it appends exactly one
\* message, the statement that there was no data to compare, which is not the
\* outcome of a capability call (no call is made, so none can fail), and it
\* advances the plan cursor by 1.
C21_SummaryOnEmptyEvidence ==
  [][SummaryWithoutEvidence
     => /\ pc' = "router"
        /\ messages' = Append(messages, AIMessage("diagnostics: no data to compare"))
        /\ plan_step_index' = plan_step_index + 1
        /\ active_agent' = "diagnostics_summary_agent"]_vars

\* The summary step has returned on a first result without rows.
C21_WitnessZeroRows ==
  /\ pc = "router"
  /\ trace # <<>>
  /\ trace[Len(trace)] = "diagnostics_summary_agent"
  /\ messages[Len(messages)].content = "diagnostics: no data to compare"
  /\ ResultsOf(diagnostics_context) # <<>>
  /\ ResultsOf(diagnostics_context)[1].rows = <<>>

\* The summary step has returned on empty results: every data step had failed.
C21_WitnessNoResults ==
  /\ pc = "router"
  /\ trace # <<>>
  /\ trace[Len(trace)] = "diagnostics_summary_agent"
  /\ messages[Len(messages)].content = "diagnostics: no data to compare"
  /\ ResultsOf(diagnostics_context) = <<>>
  /\ TimesRun(trace, "metrics_agent") = 3

\* The Diagnostics-Summary Agent returns its delta.
SummaryStep ==
  /\ pc = "diagnostics_summary_agent"
  /\ pc' = "router"

C22_WitnessNoData ==
  /\ pc = "router"
  /\ trace # <<>>
  /\ trace[Len(trace)] = "diagnostics_summary_agent"
  /\ messages[Len(messages)].content = "diagnostics: no data to compare"
  /\ Len(ResultsOf(diagnostics_context)) = 1
  /\ plan_step_index = 4

\* The Chart Agent has just returned from a run without rows.
AfterChartWithoutRows ==
  /\ pc = "router"
  /\ trace # <<>>
  /\ trace[Len(trace)] = "chart_agent"
  /\ messages[Len(messages)].content = "chart: no data, fetch rows first"

\* C23: when the Chart Agent runs with last_rows empty it returns normally: it
\* appends exactly one message, the guidance to fetch data first, which is not
\* the outcome of a capability call; the plan cursor grows by exactly 1;
\* last_rows and plan keep their values and no error flag is set; the router
\* pass that follows dispatches the plan's next step when there is one and
\* ends the turn otherwise (the next node is stated for the generation whose
\* graph is in the repository).
C23_ChartWithoutRows ==
  [][/\ (pc = "chart_agent" /\ last_rows = <<>>)
        => /\ pc' = "router"
           /\ messages' = Append(messages, AIMessage("chart: no data, fetch rows first"))
           /\ plan_step_index' = plan_step_index + 1
           /\ last_rows' = <<>>
           /\ plan' = plan
           /\ has_error' = has_error
           /\ ~has_error'
           /\ active_agent' = "chart_agent"
     /\ AfterChartWithoutRows
        => /\ messages' = messages
           /\ IF plan_step_index < Len(plan)
              THEN /\ active_agent' = plan[plan_step_index + 1].agent
                   /\ plan_step_index' = plan_step_index
                   /\ variant = "backend" =>
                        pc' = IF plan[plan_step_index + 1].agent \in valid_agents
                              THEN plan[plan_step_index + 1].agent
                              ELSE "metrics_agent"
              ELSE /\ active_agent' = "complete"
                   /\ variant = "backend" => pc' = "END"]_vars

\* The chart step of a plan ran first and without rows; the plan's second step
\* was dispatched after it.
C23_WitnessNextStep ==
  /\ Len(plan) = 2
  /\ plan[1].agent = "chart_agent"
  /\ plan_step_index = 1
  /\ Len(trace) >= 2
  /\ trace[Len(trace)] = "router"
  /\ trace[Len(trace) - 1] = "chart_agent"
  /\ messages[Len(messages)].content = "chart: no data, fetch rows first"
  /\ active_agent = plan[2].agent
  /\ pc # "END"

\* The chart step ran after a metrics step that gave no rows; the turn ended.
C23_WitnessAfterEmptyResult ==
  /\ pc = "END"
  /\ Len(trace) >= 4
  /\ trace[Len(trace) - 1] = "chart_agent"
  /\ trace[Len(trace) - 3] = "metrics_agent"
  /\ messages[Len(messages)].content = "chart: no data, fetch rows first"
  /\ messages[Len(messages) - 1].content = "summary"

\* The router pass that directly follows an execution of the refusal agent.
AfterRefusal ==
  /\ pc = "router"
  /\ Len(trace) >= 1
  /\ trace[Len(trace)] = "refusal_agent"

C24_WitnessInsidePlan ==
  /\ AfterRefusal
  /\ start.plan = <<PlanStep(1, "refusal_agent")>>
  /\ plan = <<>>
  /\ plan_step_index = 1

\* s is an initial segment of t.
IsPrefixOf(s, t) == Len(s) <= Len(t) /\ SubSeq(t, 1, Len(s)) = s

\* C25: within a turn the message sequence only grows at its end: across every
\* node execution the previous sequence is a prefix of the new one; and the
\* first state of a turn holds the final messages of the previous turn
\* followed by the single new user message.
C25_MessagesAppendOnly ==
  [][/\ pc # "END" => IsPrefixOf(messages, messages')
     /\ pc = "END" =>
          /\ Len(messages') = Len(messages) + 1
          /\ IsPrefixOf(messages, messages')
          /\ messages'[Len(messages')].type = "human"
          /\ start'.messages = messages']_vars

\* A second turn in which agents have added messages behind the history the
\* turn started with, which itself ends with the new user message.
C25_WitnessSecondTurn ==
  /\ turn = 2
  /\ Len(start.messages) >= 3
  /\ start.messages[Len(start.messages)].type = "human"
  /\ Len(messages) > Len(start.messages)
  /\ IsPrefixOf(start.messages, messages)

\* The state the turn was started with has its cursor inside its plan.
StartedWithinPlan ==
  /\ 0 <= start.plan_step_index
  /\ start.plan_step_index <= Len(start.plan)

\* C26 as stated: in every reachable state of a turn (one that was started
\* with the cursor inside the plan) the plan cursor lies between 0 and the
\* length of the plan.
C26_CursorWithinPlan ==
  StartedWithinPlan =>
    /\ 0 <= plan_step_index
    /\ plan_step_index <= Len(plan)

\* C26, amended: in a turn that was started with the cursor inside the plan,
\* the plan cursor is never negative and never passes the end of a plan that
\* has steps; with an empty plan the cursor may stand
\* above 0, which is the mark an agent leaves when it ran outside a plan or
\* cleared the plan.
C26_CursorWithinStoredPlan ==
  StartedWithinPlan =>
    /\ 0 <= plan_step_index
    /\ plan # <<>> => plan_step_index <= Len(plan)

\* The last step of a two-step plan has been executed: the cursor stands at
\* the end of the plan.
C26_WitnessPlanExhausted ==
  /\ StartedWithinPlan
  /\ pc = "router"
  /\ Len(plan) = 2
  /\ plan_step_index = Len(plan)
  /\ Len(trace) >= 1
  /\ trace[Len(trace)] = "chart_agent"

\* An agent ran outside a plan: the cursor stands above 0 with no plan.
C26_WitnessNoPlan ==
  /\ StartedWithinPlan
  /\ pc = "router"
  /\ plan = <<>>
  /\ plan_step_index = 1
  /\ Len(trace) >= 1
  /\ trace[Len(trace)] = "metrics_agent"

\* C27: no failure of a capability call leaves an agent step: every step of
\* the router, the planner, the metrics agent, the chart agent and the
\* diagnostics summary agent either continues inside the node (the repair
\* loop) or hands a state delta back to the graph; none ends by an exception.
C27_FailuresStayInsideStep ==
  [][(pc \in {"router", "planner", "metrics_agent", "chart_agent",
              "diagnostics_summary_agent"}) => pc' # "raised"]_vars

\* The part of C27 that the code keeps: a failing classification or planning
\* call and a failing SQL execution never end the step by an exception.
C27_RouterPlannerExecutionAbsorbed ==
  [][/\ pc \in {"router", "planner"} => pc' # "raised"
     /\ pc = "metrics_agent" /\ m.phase = "attempt" => pc' # "raised"]_vars

\* A LIMIT keyword (any case) stands in sql outside a string literal.
HasLimitClause(sql) ==
  \E i \in 1..Len(sql) :
    /\ StartsWithAt(Lower(sql), i, "limit")
    /\ WordBoundary(sql, i)
    /\ WordBoundary(sql, i + 5)
    /\ Cardinality({k \in 1..(i - 1) : CharAt(sql, k) = "'"}) % 2 = 0

\* The statement without its terminator and surrounding blanks.
StatementOf(sql) == Strip(RStripSemicolons(sql))

\* C28: for every statement without a row limit the statement executed is the
\* original with the default limit (100) appended; for every statement that
\* already contains a limit the statement executed is the original; and
\* limit injection applied to its own output changes nothing.
C28_LimitInjection ==
  variant = "backend" =>
    \A k \in 1..Len(m.ran) :
      LET original == m.executed[k]
          ran == m.ran[k]
      IN /\ ~HasLimitClause(original) => ran = StatementOf(original) \o " LIMIT 100"
         /\ HasLimitClause(original) => ran = original
         /\ _ensure_limit(ran) = ran

\* The same with "contains a limit" read as the tool reads it: the word LIMIT
\* occurs somewhere in the statement, inside a string literal or not.
C28_LimitInjectionByKeyword ==
  variant = "backend" =>
    \A k \in 1..Len(m.ran) :
      LET original == m.executed[k]
          ran == m.ran[k]
      IN /\ ~HasWord(Lower(original), "limit") => ran = StatementOf(original) \o " LIMIT 100"
         /\ HasWord(Lower(original), "limit") => ran = original
         /\ _ensure_limit(ran) = ran

\* Statements of each kind have been executed: one that got the default limit
\* in place of its terminator, and one that kept its own limit.
C28_WitnessAppended ==
  /\ variant = "backend"
  /\ Len(m.ran) >= 1
  /\ m.executed[Len(m.ran)] = "select * from agent_runs ;"
  /\ m.ran[Len(m.ran)] = "select * from agent_runs LIMIT 100"

C28_WitnessKept ==
  /\ variant = "backend"
  /\ Len(m.ran) >= 1
  /\ m.ran[Len(m.ran)] = "select * from call_tool limit 5"

\* The metrics agent is about to normalise, validate and perhaps execute m.sql.
AttemptStep == pc = "metrics_agent" /\ m.phase = "attempt"

C29_WitnessRejectedForTable ==
  /\ pc = "metrics_agent"
  /\ m.phase = "repair"
  /\ m.sql = "select GROUP_CONCAT(DISTINCT tool_name) from tools"
  /\ m.last_error = "Validation errors: no real table"

\* The agents a plan names, in order.
PlanAgents(p) == [i \in 1..Len(p) |-> p[i].agent]

\* A chart specification message whose chartType is not empty.
IsChartSpec(msg) ==
  /\ msg.type = "ai"
  /\ Len(msg.content) > Len("chart spec: chartType=")
  /\ SubSeq(msg.content, 1, Len("chart spec: chartType=")) = "chart spec: chartType="

\* The turn started with a message that asks for a chart, with no rows, no
\* plan, the cursor at 0 and no error flag; the message is neither refused nor
\* a diagnostics request (backend router).
ChartRequestWithoutRows ==
  /\ variant = "backend"
  /\ start.last_rows = <<>>
  /\ start.plan = <<>>
  /\ start.plan_step_index = 0
  /\ ~start.has_error
  /\ StartText \notin {None, ""}
  /\ ~RefusalRuleApplies(StartText)
  /\ ~HasDiagnosticsSignals(StartText)
  /\ AnyInLower(chart_keywords, StartText)

\* The first router pass of the turn.
FirstPass == pc = "router" /\ trace = <<>>

C30_WitnessOtherPlan ==
  /\ ChartRequestWithoutRows
  /\ pc = "END"
  /\ trace = <<"router", "planner", "router", "metrics_agent", "router">>
  /\ last_rows # <<>>
  /\ ~IsChartSpec(messages[Len(messages)])

\* The names of the steps of a plan, in order ("" for a step without a name).
PlanNames(p) == [i \in 1..Len(p) |-> Get(p[i], "name", "")]

\* The names of the stored diagnostics results, in order.
ResultNames(ctx) == [i \in 1..Len(ResultsOf(ctx)) |-> ResultsOf(ctx)[i].name]

\* The number of agent steps the plan of the current turn has had so far.
PlanStepsRun(tr) ==
  Cardinality({k \in 1..Len(tr) : tr[k] \in {"metrics_agent", "diagnostics_summary_agent"}})

\* A turn that started from an empty prior state and that the backend router
\* has put into diagnostics mode.
DiagnosticsTurnFromEmptyState ==
  /\ variant = "backend"
  /\ Len(start.messages) = 1
  /\ start.plan = <<>>
  /\ start.plan_step_index = 0
  /\ start.last_rows = <<>>
  /\ start.plan_mode = "default"
  /\ ResultsOf(start.diagnostics_context) = <<>>
  /\ ~start.has_error
  /\ plan_mode = "diagnostics"

C31_WitnessSkipped ==
  /\ DiagnosticsTurnFromEmptyState
  /\ pc = "diagnostics_summary_agent"
  /\ trace = <<"router", "planner", "router", "metrics_agent", "router">>
  /\ ResultNames(diagnostics_context) = <<"overall_change">>

\* The nodes that execute plan steps or answer the user; the planner and the
\* router are not among them.
StepAgents ==
  {"metrics_agent", "chart_agent", "diagnostics_summary_agent", "clarifier_agent",
   "refusal_agent"}

\* An agent hands its delta back: the step that leaves the agent's node.
AgentReturns == pc \in StepAgents /\ pc' \notin {pc, "raised"}

C32_WitnessWholePlan ==
  /\ pc = "END"
  /\ trace = <<"router", "planner", "router", "metrics_agent", "router", "metrics_agent",
               "router", "metrics_agent", "router", "diagnostics_summary_agent", "router">>

\* The turn started from a state run_obs_agent builds: no plan, the cursor at
\* 0, has_error false; the other fields are the previous state's.
StartedThroughEntryPoint ==
  start.plan = <<>> /\ start.plan_step_index = 0 /\ ~start.has_error

\* The dict the caller holds has the value it had when the turn started.
CallerContextKept == caller.diagnostics_context = start.diagnostics_context

C33_WitnessSharedToTheEnd ==
  /\ turn >= 2
  /\ pc = "END"
  /\ caller.aliased
  /\ TimesRun(trace, "metrics_agent") >= 1

\* A router pass of the clarifier generation that classifies a reply naming
\* one of the four tables while a table_name clarification is pending.
TableReplyWhilePending ==
  /\ pc = "router"
  /\ variant = "clarifier"
  /\ plan = <<>>
  /\ plan_step_index = 0
  /\ Text \notin {None, ""}
  /\ AnyInLower(TABLE_NAMES, Text)
  /\ clarification # Absent
  /\ Get(clarification, "status", None) = "pending"
  /\ Get(clarification, "required_detail", None) = "table_name"

\* C34: while a table_name clarification is pending, a reply that names one of
\* the four known tables, the bare table name included, resolves the
\* clarification and is never routed to refusal by a rule of the router (a
\* refusal chosen by the routing call for the resolved query is left aside).
C34_TableReplyResolves ==
  [][TableReplyWhilePending
     => /\ active_agent' = "refusal_agent" => routerLog'.llm = "refusal_agent"
        /\ clarification' # Absent
        /\ Get(clarification', "status", None) = "resolved"]_vars

\* The Diagnostics-Summary Agent is about to run as a step of a diagnostics
\* plan that the Planner made in this turn.
SummaryStepOfDiagnosticsPlan ==
  /\ pc = "diagnostics_summary_agent"
  /\ StartedThroughEntryPoint
  /\ plan_mode = "diagnostics"
  /\ HasPlannerStep(St)
  /\ TimesRun(trace, "planner") = 1

\* C35: when the Diagnostics-Summary Agent runs as a step of a diagnostics
\* plan, the first entry of diagnostics_context.results, if there is one, is
\* the result of the overall_change step, so that the test on the first result
\* set reads no by_tool or by_agent result.
C35_FirstResultIsOverallChange ==
  SummaryStepOfDiagnosticsPlan /\ ResultsOf(diagnostics_context) # <<>>
    => ResultsOf(diagnostics_context)[1].name = "overall_change"

\* The last router pass sent the message to the Planner by the chart rule: a
\* chart keyword of the router and no rows to draw.
ChartDispatchToPlanner ==
  /\ pc = "planner"
  /\ trace = <<"router">>
  /\ routerLog.rule = "classify"
  /\ ~Called(routerLog, "routing")
  /\ plan_mode # "diagnostics"
  /\ last_rows = <<>>
  /\ Text # None
  /\ AnyInLower(IF variant = "backend" THEN chart_keywords ELSE chart_keywords_clarifier,
                Text)

\* C36: for a message that the router sends to the Planner by its chart rule,
\* the Planner's fallback plan holds the chart step.
C36_FallbackKeepsChartStep ==
  [][ChartDispatchToPlanner /\ PlannerFallsBack
     => \E k \in 1..Len(plan') : plan'[k].agent = "chart_agent"]_vars

\* C37: the final state of a turn has plan empty, plan_step_index = 0 and
\* plan_mode = default; every turn begins with plan empty and plan_step_index
\* = 0; the first router pass of a turn takes the error rule or classifies.
C37_NoPlanAcrossTurns ==
  [][/\ (StartedThroughEntryPoint /\ pc' = "END")
          => plan' = <<>> /\ plan_step_index' = 0 /\ plan_mode' = "default"
     /\ (turn' = turn + 1) => plan' = <<>> /\ plan_step_index' = 0
     /\ (StartedThroughEntryPoint /\ pc = "router" /\ trace = <<>>)
          => routerLog'.rule \in {"error", "classify"}]_vars

\* A later turn ran a two-step plan to its end and returned without it.
C37_WitnessPlanGone ==
  /\ turn >= 2
  /\ pc = "END"
  /\ trace = <<"router", "planner", "router", "metrics_agent", "router", "chart_agent",
               "router">>
  /\ routerLog.rule \in {"exhausted", "done"}
  /\ plan = <<>>
  /\ plan_step_index = 0

\* A diagnostics turn ended in the default mode with its results kept.
C37_WitnessModeReset ==
  /\ turn = 1
  /\ pc = "END"
  /\ start = run_obs_agent("why did latency spike in the last 4 hours", Absent)
  /\ TimesRun(trace, "diagnostics_summary_agent") = 1
  /\ ResultsOf(diagnostics_context) # <<>>
  /\ plan_mode = "default"

\* C38: a turn that terminates has appended at least one agent message after
\* the new user message.
C38_TurnAnswers ==
  (StartedThroughEntryPoint /\ pc = "END")
    => \E k \in (Len(start.messages) + 1)..Len(messages) : messages[k].type = "ai"

\* A Metrics Agent step of this turn executed its SQL and wrote last_rows.
MetricsWroteRowsThisTurn ==
  \E k \in (Len(start.messages) + 1)..Len(messages) : messages[k] = AIMessage("summary")

\* C39: when the Chart Agent runs as a step of a plan, the rows it reads were
\* written by a Metrics Agent step of the same turn, never left over from an
\* earlier turn. Stated for the case the claim names, a chart step that
\* follows a Metrics Agent step of its plan.
C39_ChartReadsRowsOfThisTurn ==
  (/\ pc = "chart_agent"
   /\ StartedThroughEntryPoint
   /\ HasPlannerStep(St)
   /\ plan_step_index >= 1
   /\ plan[plan_step_index].agent = "metrics_agent"
   /\ TimesRun(trace, "metrics_agent") >= 1
   /\ last_rows # <<>>)
    => MetricsWroteRowsThisTurn

\* C40: in a turn started through run_obs_agent has_error is false at every
\* router pass, and no router pass takes the fatal-error branch.
C40_NoFatalErrorInTurn ==
  StartedThroughEntryPoint => ~has_error /\ routerLog.rule # "error"

\* The router has passed again after a Metrics Agent step whose attempts were
\* all rejected, and has dispatched the next step of the plan.
C40_WitnessAfterFailedStep ==
  /\ StartedThroughEntryPoint
  /\ variant = "backend"
  /\ trace = <<"router", "planner", "router", "metrics_agent", "router">>
  /\ StartsWithAt(messages[Len(messages)].content, 1, "sql rejected")
  /\ routerLog.rule = "plan"
  /\ pc = "chart_agent"
  /\ ~has_error

\* A later turn ended by the rule for a finished plan, not by the error rule.
C40_WitnessLaterTurn ==
  /\ turn >= 2
  /\ pc = "END"
  /\ TimesRun(trace, "router") >= 3
  /\ routerLog.rule \in {"exhausted", "done"}
  /\ ~has_error
====
